---- MODULE Spec2Model ----
(***************************************************************************)
(* CordFeeder: the feed-polling engine (poll loop, per-feed worker, HTTP   *)
(* fetch with per-host semaphores, sqlite store) and the /feed add and     *)
(* /feed remove commands that run beside it on the same event loop.        *)
(* One action is one stretch of a coroutine between suspension points.     *)
(***************************************************************************)
EXTENDS Integers, Sequences, FiniteSets, TLC

\* ------------------------------------------------------------------
\* Bounds of the model
\* ------------------------------------------------------------------
MaxAdds == 1
MaxAdvances == 1
NumWorkers == 4
MaxRows == 3
MaxCalls == 3
MaxWaits == 2
MaxJumps == 3

\* ------------------------------------------------------------------
\* Program constants
\* ------------------------------------------------------------------
min_poll_interval == 300
max_poll_interval == 43200
max_items_per_poll == 5
initial_items_count == 3
schema_poll_interval == 900
default_poll_interval == 900
HostPermits == 2
LoopSleep == 30
RequestTimeout == 30
PruneEvery == 86400
PruneDays == 90
DaySeconds == 86400
RateLimitFloor == 14400
BackoffCap == 86400
MAX_FEED_BYTES == 10485760
_BOILERPLATE_MIN_LEN == 20

\* ------------------------------------------------------------------
\* Values
\* ------------------------------------------------------------------
\* SQL NULL / Python None is the empty tuple, a present value v is <<v>>.
None == <<>>
Some(v) == <<v>>
IsNone(x) == x = <<>>
Val(x) == x[1]

Min(a, b) == IF a <= b THEN a ELSE b
Max(a, b) == IF a >= b THEN a ELSE b

RECURSIVE Pow2(_)
Pow2(n) == IF n = 0 THEN 1 ELSE 2 * Pow2(n - 1)

RECURSIVE SumSeq(_)
SumSeq(s) == IF s = <<>> THEN 0 ELSE Head(s) + SumSeq(Tail(s))

Reverse(s) == [i \in 1..Len(s) |-> s[Len(s) + 1 - i]]

Range(s) == { s[i] : i \in DOMAIN s }

\* items[:n]
Take(s, n) == SubSeq(s, 1, Min(n, Len(s)))
\* items[-n:]
LastN(s, n) == SubSeq(s, Len(s) - Min(n, Len(s)) + 1, Len(s))

Statuses == {304, 403, 404, 410, 429, 503}

\* A feed URL is <<hostname, path>>; an empty hostname is what urlparse
\* gives for a string it cannot split.
Urls == {<<"a", "/1">>}
Guilds == {1}
Channels == {10}
Guids == {"g1", "g2"}
FeedIds == {1, 2, 3}
Workers == 1..NumWorkers
Delays == {LoopSleep, (PruneDays + 1) * DaySeconds}

Item(g, p) == [guid |-> g, published |-> p]

\* Feed documents a publisher may serve (entries in document order).
Docs ==
  { << Item("g1", None) >>,
    << Item("g2", Some(7200)), Item("g1", Some(0)) >>,
    << Item("g1", None), Item("g1", None) >>,
    << Item("g2", Some(200000)), Item("g1", Some(0)) >> }

\* What feedparser makes of a response body: bozo flag and entries.
Bodies == { [bozo |-> FALSE, entries |-> d] : d \in Docs }
            \cup { [bozo |-> TRUE, entries |-> <<>>] }

\* ETag and Last-Modified response headers
Validators == { [etag |-> None, last_modified |-> None],
                [etag |-> Some("e1"), last_modified |-> Some("m1")] }

VARIABLES
  now,              \* wall clock, seconds
  feeds,            \* table feeds: id -> row
  seq,              \* sqlite_sequence of feeds (AUTOINCREMENT)
  posted_items,     \* table posted_items: set of rows
  host_semaphores,  \* Poller._host_semaphores: host -> free permits
  loop,             \* the _poll_loop task
  workers,          \* the _poll_feed tasks of the current gather
  cmd,              \* the /feed add interaction in progress
  sink,             \* channel.send calls of poll workers, per (feed, guid)
  bootsink,         \* channel.send calls of /feed add, per (feed, guid)
  notices,          \* 410 notices sent, per feed id
  advances,         \* number of clock advances so far
  config,           \* the Config the process was started with
  call              \* the last direct store call or command reply observed

vars == << now, feeds, seq, posted_items, host_semaphores, loop, workers,
           cmd, sink, bootsink, notices, advances, config, call >>

Pairs == FeedIds \X Guids

\* ------------------------------------------------------------------
\* parser.py
\* ------------------------------------------------------------------
ParseFails(body) == body.bozo /\ body.entries = <<>>
parse_feed(body) == body.entries

\* ------------------------------------------------------------------
\* database.py
\* ------------------------------------------------------------------
_UPDATABLE_STATE_COLUMNS ==
  {"etag", "last_modified", "last_poll_at", "next_poll_at",
   "poll_interval", "consecutive_errors", "last_error"}

NewRow(url, channel_id, guild_id, t) ==
  [ url |-> url, channel_id |-> channel_id, guild_id |-> guild_id,
    created_at |-> t,
    etag |-> None, last_modified |-> None,
    last_poll_at |-> None, next_poll_at |-> None,
    poll_interval |-> schema_poll_interval,
    consecutive_errors |-> 0, last_error |-> None ]

\* Mutant of UniqueViolation: the table without its UNIQUE constraint.
NoUniqueConstraint(f, url, guild_id) == FALSE

\* UNIQUE(url, guild_id)
UniqueViolation(f, url, guild_id) ==
  \E i \in DOMAIN f : f[i].url = url /\ f[i].guild_id = guild_id

\* Mutant of NextId: INTEGER PRIMARY KEY without AUTOINCREMENT, one more
\* than the largest rowid in the table.
NextIdRowid(f, sq) ==
  IF DOMAIN f = {} THEN 1
  ELSE (CHOOSE i \in DOMAIN f : \A j \in DOMAIN f : j <= i) + 1

\* id INTEGER PRIMARY KEY AUTOINCREMENT: one more than the largest rowid
\* the table has ever held (sqlite_sequence)
NextId(f, sq) ==
  Max(sq, IF DOMAIN f = {} THEN 0
          ELSE CHOOSE i \in DOMAIN f : \A j \in DOMAIN f : j <= i) + 1

add_feed(f, id, url, channel_id, guild_id, t) ==
  [ i \in DOMAIN f \cup {id} |->
      IF i = id THEN NewRow(url, channel_id, guild_id, t) ELSE f[i] ]

\* DELETE FROM feeds WHERE id = ?
remove_feed_rows(f, id) == [ i \in DOMAIN f \ {id} |-> f[i] ]
\* ... ON DELETE CASCADE on posted_items.feed_id (foreign_keys=ON)
remove_feed_cascade(p, id) == { r \in p : r.feed_id # id }

\* SELECT * FROM feeds WHERE guild_id = ? (the rows, whatever their order)
list_feeds(f, guild_id) == { i \in DOMAIN f : f[i].guild_id = guild_id }

get_feed_by_url(f, url, guild_id) ==
  { i \in DOMAIN f : f[i].url = url /\ f[i].guild_id = guild_id }

update_feed_channel(f, id, channel_id) ==
  IF id \in DOMAIN f THEN [f EXCEPT ![id].channel_id = channel_id] ELSE f

\* UPDATE feeds SET url = ? WHERE id = ?, under UNIQUE(url, guild_id)
UrlTaken(f, id, url) ==
  /\ id \in DOMAIN f
  /\ UniqueViolation(remove_feed_rows(f, id), url, f[id].guild_id)

update_feed_url(f, id, url) ==
  IF id \in DOMAIN f THEN [f EXCEPT ![id].url = url] ELSE f

\* Mutant of update_feed_state: unknown names dropped, the others written.
update_feed_state_known_columns(f, id, kw) ==
  IF id \in DOMAIN f
  THEN [f EXCEPT ![id] =
          [ c \in DOMAIN f[id] |-> IF c \in DOMAIN kw THEN kw[c] ELSE f[id][c] ]]
  ELSE f

\* UPDATE feeds SET <kw> WHERE id = ?  (no row: nothing changes)
update_feed_state(f, id, kw) ==
  IF DOMAIN kw \subseteq _UPDATABLE_STATE_COLUMNS /\ id \in DOMAIN f
  THEN [f EXCEPT ![id] =
          [ c \in DOMAIN f[id] |-> IF c \in DOMAIN kw THEN kw[c] ELSE f[id][c] ]]
  ELSE f

is_item_posted(p, id, guid) ==
  \E r \in p : r.feed_id = id /\ r.item_guid = guid

\* Mutant of ForeignKeyFails: PRAGMA foreign_keys left off.
ForeignKeysOff(f, id) == FALSE

\* posted_items.feed_id REFERENCES feeds(id): the insert raises IntegrityError
\* when the feed row is gone (OR IGNORE does not cover foreign keys).
ForeignKeyFails(f, id) == id \notin DOMAIN f

\* Mutant of record_posted_item: the journal write only after a send that
\* returned a message.
record_posted_item_if_sent(p, id, guid, message_id, t) ==
  IF is_item_posted(p, id, guid) \/ IsNone(message_id) THEN p
  ELSE p \cup { [feed_id |-> id, item_guid |-> guid,
                 posted_at |-> t, message_id |-> message_id] }

\* Mutant of record_posted_item: INSERT OR REPLACE.
record_posted_item_replace(p, id, guid, message_id, t) ==
  { r \in p : ~(r.feed_id = id /\ r.item_guid = guid) }
    \cup { [feed_id |-> id, item_guid |-> guid,
            posted_at |-> t, message_id |-> message_id] }

\* INSERT OR IGNORE INTO posted_items ...
record_posted_item(p, id, guid, message_id, t) ==
  IF is_item_posted(p, id, guid) THEN p
  ELSE p \cup { [feed_id |-> id, item_guid |-> guid,
                 posted_at |-> t, message_id |-> message_id] }

\* posted_at < datetime(now, '-90 days'): posted_at is an isoformat string
\* ("...T..."), the cutoff is sqlite's "YYYY-MM-DD HH:MM:SS"; compared as
\* text, a row of the cutoff's own day sorts after the cutoff.
PruneMatches(posted_at, t, days) ==
  (posted_at \div DaySeconds) < ((t - days * DaySeconds) \div DaySeconds)

prune_old_items(p, t, days) == { r \in p : ~PruneMatches(r.posted_at, t, days) }

\* Mutant of IsDue: next_poll_at < now.
IsDueStrict(row, t) == IsNone(row.next_poll_at) \/ Val(row.next_poll_at) < t

\* WHERE next_poll_at IS NULL OR next_poll_at <= ?
IsDue(row, t) == IsNone(row.next_poll_at) \/ Val(row.next_poll_at) <= t

\* ORDER BY next_poll_at (NULL first), rowid breaking ties
DueBefore(f, i, j) ==
  LET a == f[i].next_poll_at
      b == f[j].next_poll_at
  IN  IF IsNone(a) /\ IsNone(b) THEN i < j
      ELSE IF IsNone(a) THEN TRUE
      ELSE IF IsNone(b) THEN FALSE
      ELSE IF Val(a) = Val(b) THEN i < j
      ELSE Val(a) < Val(b)

RECURSIVE OrderIds(_, _)
OrderIds(f, S) ==
  IF S = {} THEN <<>>
  ELSE LET first == CHOOSE i \in S : \A j \in S \ {i} : DueBefore(f, i, j)
       IN  <<first>> \o OrderIds(f, S \ {first})

get_due_feeds(f, t) == OrderIds(f, { i \in DOMAIN f : IsDue(f[i], t) })

\* ------------------------------------------------------------------
\* poller.py: pure parts
\* ------------------------------------------------------------------
\* Timestamps sorted newest first; the mean gap of consecutive ones is
\* (newest - oldest) / (n - 1) only after summing the gaps, as the code does.
RECURSIVE SortDesc(_)
SortDesc(S) ==
  IF S = {} THEN <<>>
  ELSE LET m == CHOOSE x \in S : \A y \in S : y[1] < x[1] \/ (y[1] = x[1] /\ y[2] <= x[2])
       IN  <<m[1]>> \o SortDesc(S \ {m})

Gaps(ts) == [ i \in 1..(Len(ts) - 1) |-> ts[i] - ts[i + 1] ]

\* Mutant of calculate_adaptive_interval: the timestamps left unsorted.
calculate_adaptive_interval_unsorted(timestamps, min_interval, max_interval) ==
  IF Len(timestamps) < 2 THEN None
  ELSE LET gaps == Gaps(timestamps)
           interval == SumSeq(gaps) \div (2 * Len(gaps))
       IN  Some(Max(min_interval, Min(interval, max_interval)))

calculate_adaptive_interval(timestamps, min_interval, max_interval) ==
  IF Len(timestamps) < 2 THEN None
  ELSE LET sorted_ts == SortDesc({ <<timestamps[i], i>> : i \in 1..Len(timestamps) })
           gaps == Gaps(sorted_ts)
           interval == SumSeq(gaps) \div (2 * Len(gaps))
       IN  Some(Max(min_interval, Min(interval, max_interval)))

RECURSIVE extract_timestamps(_)
extract_timestamps(items) ==
  IF items = <<>> THEN <<>>
  ELSE IF IsNone(Head(items).published) THEN extract_timestamps(Tail(items))
  ELSE <<Val(Head(items).published)>> \o extract_timestamps(Tail(items))

\* urlparse(url).hostname or url
Hostname(url) == IF url[1] # "" THEN <<url[1]>> ELSE url

\* int(retry_raw) if retry_raw else None, None on ValueError
RetryAfter(h) == IF h.kind = "int" THEN Some(h.n) ELSE None
RetryHeaders ==
  { [kind |-> "absent", n |-> 0], [kind |-> "date", n |-> 0],
    [kind |-> "int", n |-> 120], [kind |-> "int", n |-> 50000] }

\* random.uniform(0, x * pct / 100), as far as int(x + jitter) can tell
Jitter(x, pct) == { 0, (x * pct) \div 100 }

\* new_items of _poll_feed: unposted items, last max_items_per_poll, reversed
RECURSIVE Unposted(_, _, _)
Unposted(p, id, items) ==
  IF items = <<>> THEN <<>>
  ELSE IF is_item_posted(p, id, Head(items).guid) THEN Unposted(p, id, Tail(items))
  ELSE <<Head(items).guid>> \o Unposted(p, id, Tail(items))

CapNew(new_items) ==
  IF Len(new_items) > max_items_per_poll
  THEN LastN(new_items, max_items_per_poll) ELSE new_items

\* Mutant of NewItems: the list left in document order.
NewItemsDocOrder(p, id, items) == CapNew(Unposted(p, id, items))

NewItems(p, id, items) == Reverse(CapNew(Unposted(p, id, items)))

\* Mutant of schedule_next_poll: the interval left out of next_poll_at.
schedule_next_poll_jitter_only(f, id, interval, jitter, t) ==
  update_feed_state(f, id,
    [ last_poll_at |-> Some(t), next_poll_at |-> Some(t + jitter),
      poll_interval |-> interval ])

schedule_next_poll(f, id, interval, jitter, t) ==
  update_feed_state(f, id,
    [ last_poll_at |-> Some(t), next_poll_at |-> Some(t + interval + jitter),
      poll_interval |-> interval ])

\* ------------------------------------------------------------------
\* State
\* ------------------------------------------------------------------
IdleWorker ==
  [ pc |-> "idle", id |-> 0, url |-> <<"", "">>, channel_id |-> 0,
    poll_interval |-> 0, consecutive_errors |-> 0,
    queue |-> <<>>, handled |-> <<>>, adaptive |-> None,
    retry_after |-> None, error |-> "", status |-> 0, res |-> "" ]

\* Config.from_env with DEFAULT_POLL_INTERVAL unset
ShippedConfig == [ default_poll_interval |-> default_poll_interval ]

NoCall ==
  [ op |-> "", id |-> 0, url |-> <<"", "">>, guild_id |-> 0, guid |-> "",
    message_id |-> None, kw |-> << >>, res |-> "", rows |-> <<>>,
    listed |-> {}, status |-> 0, retry_raw |-> << >>, size |-> 0, n |-> 0 ]

IdleCmd ==
  [ pc |-> "idle", url |-> <<"", "">>, guild_id |-> 0, channel_id |-> 0,
    items |-> <<>>, feed_id |-> 0, queue |-> <<>>,
    sent |-> <<>>, failed |-> FALSE ]

Init ==
  /\ now = 0
  /\ feeds = << >>
  /\ seq = 0
  /\ posted_items = {}
  /\ host_semaphores = << >>
  /\ loop = [ pc |-> "sleep", last_prune |-> None, wake |-> 0 ]
  /\ workers = [ w \in Workers |-> IdleWorker ]
  /\ cmd = IdleCmd
  /\ sink = [ p \in Pairs |-> 0 ]
  /\ bootsink = [ p \in Pairs |-> 0 ]
  /\ notices = [ i \in FeedIds |-> 0 ]
  /\ advances = 0
  /\ config = ShippedConfig
  /\ call = NoCall

\* ------------------------------------------------------------------
\* Poller._poll_loop
\* ------------------------------------------------------------------
IdleSlots == { w \in Workers : workers[w].pc = "idle" }
Rank(w) == Cardinality({ v \in IdleSlots : v < w }) + 1

StartWorker(id) ==
  [ IdleWorker EXCEPT !.pc = "start", !.id = id, !.url = feeds[id].url,
      !.channel_id = feeds[id].channel_id,
      !.poll_interval = feeds[id].poll_interval,
      !.consecutive_errors = feeds[id].consecutive_errors ]

\* tasks = [_poll_feed(f) for f in due_feeds]; the gather is entered
create_tasks ==
  /\ LET due == get_due_feeds(feeds, now)
     IN  /\ Len(due) <= Cardinality(IdleSlots)
         /\ workers' = [ w \in Workers |->
              IF w \in IdleSlots /\ Rank(w) <= Len(due)
              THEN StartWorker(due[Rank(w)]) ELSE workers[w] ]
  /\ loop' = [loop EXCEPT !.pc = "gather"]
  /\ UNCHANGED << now, feeds, seq, posted_items, host_semaphores, cmd,
                  sink, bootsink, notices, advances, config, call >>

\* due_feeds = await get_due_feeds(); tasks = [_poll_feed(f) for f in due_feeds]
poll_loop_dispatch ==
  /\ loop.pc = "sleep"
  /\ now >= loop.wake
  /\ create_tasks

\* Mutant of GatherDone: the tasks are started but not awaited.
GatherNotAwaited == TRUE

\* await asyncio.gather(*tasks, return_exceptions=True)
GatherDone == \A w \in Workers : workers[w].pc \in {"idle", "done"}

PruneIsDue == IsNone(loop.last_prune) \/ now - Val(loop.last_prune) >= PruneEvery

\* the daily prune, then asyncio.sleep(30)
poll_loop_prune ==
  /\ loop.pc = "gather"
  /\ GatherDone
  /\ IF PruneIsDue
     THEN /\ posted_items' = prune_old_items(posted_items, now, PruneDays)
          /\ loop' = [ pc |-> "sleep", last_prune |-> Some(now),
                       wake |-> now + LoopSleep ]
     ELSE /\ posted_items' = posted_items
          /\ loop' = [loop EXCEPT !.pc = "sleep", !.wake = now + LoopSleep]
  /\ workers' = [ w \in Workers |->
                    IF workers[w].pc = "done" THEN IdleWorker ELSE workers[w] ]
  /\ UNCHANGED << now, feeds, seq, host_semaphores, cmd, sink, bootsink,
                  notices, advances, config, call >>

\* ------------------------------------------------------------------
\* Poller.fetch_feed
\* ------------------------------------------------------------------
\* Mutant of SemValue: a new semaphore for every call.
SemValueFresh(host) == HostPermits

\* _get_host_semaphore: the cached semaphore, or a new one of 2 permits
SemValue(host) ==
  IF host \in DOMAIN host_semaphores THEN host_semaphores[host] ELSE HostPermits

SemSet(host, v) ==
  [ h \in DOMAIN host_semaphores \cup {host} |->
      IF h = host THEN v ELSE host_semaphores[h] ]

\* sem = _get_host_semaphore(url); async with sem: session.get(...)
fetch_acquire(w) ==
  /\ workers[w].pc = "start"
  /\ LET host == Hostname(workers[w].url)
     IN  /\ SemValue(host) > 0
         /\ host_semaphores' = SemSet(host, SemValue(host) - 1)
  /\ workers' = [workers EXCEPT ![w].pc = "http"]
  /\ UNCHANGED << now, feeds, seq, posted_items, loop, cmd, sink, bootsink,
                  notices, advances, config >>

fetch_start(w) ==
  /\ fetch_acquire(w)
  /\ call' = call

Release(w) ==
  LET host == Hostname(workers[w].url)
  IN  host_semaphores' = SemSet(host, SemValue(host) + 1)

\* the request fails below HTTP (timeout, connection error)
http_network_error(w) ==
  /\ workers[w].pc = "http"
  /\ Release(w)
  /\ workers' = [workers EXCEPT ![w].pc = "error", ![w].error = "network"]
  /\ UNCHANGED << now, feeds, seq, posted_items, loop, cmd, sink, bootsink,
                  notices, advances, config, call >>

\* Mutant of fetch_outcome: only 429 is taken as a rate limit.
fetch_outcome_429_only(wk, status, h) ==
  IF status = 304 THEN [wk EXCEPT !.pc = "not_modified"]
  ELSE IF status = 410 THEN [wk EXCEPT !.pc = "gone"]
  ELSE IF status = 429
       THEN [wk EXCEPT !.pc = "rate_limited", !.retry_after = RetryAfter(h)]
  ELSE IF 500 <= status /\ status < 600
       THEN [wk EXCEPT !.pc = "error", !.error = "server error",
                       !.status = status]
  ELSE [wk EXCEPT !.pc = "error", !.error = "HTTP status", !.status = status]

\* the status classification of fetch_feed for every status but 200: what
\* becomes of the worker wk on a response with this status and Retry-After
fetch_outcome(wk, status, h) ==
  IF status = 304 THEN [wk EXCEPT !.pc = "not_modified"]
  ELSE IF status = 410 THEN [wk EXCEPT !.pc = "gone"]
  ELSE IF status \in {429, 403}
       THEN [wk EXCEPT !.pc = "rate_limited", !.retry_after = RetryAfter(h)]
  ELSE IF 500 <= status /\ status < 600
       THEN [wk EXCEPT !.pc = "error", !.error = "server error",
                       !.status = status]
  ELSE [wk EXCEPT !.pc = "error", !.error = "HTTP status", !.status = status]

http_classify(w, status, h) ==
  /\ workers[w].pc = "http"
  /\ status # 200
  /\ Release(w)
  /\ workers' = [workers EXCEPT ![w] = fetch_outcome(@, status, h)]
  /\ UNCHANGED << now, feeds, seq, posted_items, loop, cmd, sink, bootsink,
                  notices, advances, config >>

http_status(w, statuses) ==
  /\ \E status \in statuses, h \in RetryHeaders : http_classify(w, status, h)
  /\ call' = call

\* Mutant of conditional_state: the validators stored before the parse.
conditional_state_unparsed(f, id, body, hdr) ==
  update_feed_state(f, id,
    [ etag |-> hdr.etag, last_modified |-> hdr.last_modified ])

\* items = parse_feed(body) raises, or "Update conditional GET state"
conditional_state(f, id, body, hdr) ==
  IF ParseFails(body) THEN f
  ELSE update_feed_state(f, id,
         [ etag |-> hdr.etag, last_modified |-> hdr.last_modified ])

\* status 200: parse, store the validators, then the journal filter of
\* _poll_feed (is_item_posted per item, cap, reverse)
http_200_parse(w, bodies, validators) ==
  /\ workers[w].pc = "http"
  /\ Release(w)
  /\ \E body \in bodies, hdr \in validators :
       IF ParseFails(body)
       THEN /\ workers' = [workers EXCEPT ![w].pc = "error",
                                          ![w].error = "Unparseable feed"]
            /\ feeds' = conditional_state(feeds, workers[w].id, body, hdr)
       ELSE LET items == parse_feed(body)
                new_items == NewItems(posted_items, workers[w].id, items)
            IN  /\ feeds' = conditional_state(feeds, workers[w].id, body, hdr)
                /\ workers' = [workers EXCEPT
                     ![w].pc = IF new_items = <<>> THEN "finish" ELSE "send",
                     ![w].queue = new_items,
                     ![w].adaptive = calculate_adaptive_interval(
                                       extract_timestamps(items),
                                       min_poll_interval, max_poll_interval) ]
  /\ UNCHANGED << now, seq, posted_items, loop, cmd, sink, bootsink,
                  notices, advances, config >>

http_200(w, bodies, validators) ==
  /\ http_200_parse(w, bodies, validators)
  /\ call' = call

http_ok(w) == http_200(w, Bodies, Validators)

\* ------------------------------------------------------------------
\* Poller._poll_feed and Poller._post_item
\* ------------------------------------------------------------------
Done(w, outcome) ==
  [ IdleWorker EXCEPT !.pc = "done", !.id = workers[w].id, !.res = outcome ]

\* Mutant of reset_errors: the counter left as it was.
reset_errors_skipped(f, id) == f

\* await self.db.update_feed_state(feed_id, consecutive_errors=0)
reset_errors(f, id) == update_feed_state(f, id, [ consecutive_errors |-> 0 ])

\* items is None: schedule at the current interval, reset the error count
poll_not_modified(w) ==
  /\ workers[w].pc = "not_modified"
  /\ \E j \in Jitter(workers[w].poll_interval, 25) :
       feeds' = reset_errors(
                  schedule_next_poll(feeds, workers[w].id,
                                     workers[w].poll_interval, j, now),
                  workers[w].id)
  /\ workers' = [workers EXCEPT ![w] = Done(w, "not_modified")]
  /\ UNCHANGED << now, seq, posted_items, host_semaphores, loop, cmd, sink,
                  bootsink, notices, advances, config, call >>

\* _post_item up to the journal write: resolve the channel, channel.send
post_item_send(w) ==
  /\ workers[w].pc = "send"
  /\ LET key == << workers[w].id, Head(workers[w].queue) >>
     IN  \E resolved \in BOOLEAN, ok \in BOOLEAN :
           IF ~resolved
           THEN /\ sink' = sink
                /\ workers' = [workers EXCEPT ![w].pc = "record",
                                              ![w].res = "no channel"]
           ELSE /\ sink' = [sink EXCEPT ![key] = Min(@ + 1, 2)]
                /\ workers' = [workers EXCEPT ![w].pc = "record",
                                 ![w].res = IF ok THEN "sent" ELSE "send failed"]
  /\ UNCHANGED << now, feeds, seq, posted_items, host_semaphores, loop, cmd,
                  bootsink, notices, advances, config, call >>

MessageId(res) == IF res = "sent" THEN Some(501) ELSE None

\* _post_item: record_posted_item, then the next item of the loop
post_item_record(w) ==
  /\ workers[w].pc = "record"
  /\ IF ForeignKeyFails(feeds, workers[w].id)
     THEN /\ workers' = [workers EXCEPT ![w].pc = "error",
                                        ![w].error = "IntegrityError"]
          /\ posted_items' = posted_items
     ELSE /\ posted_items' = record_posted_item(posted_items, workers[w].id,
                               Head(workers[w].queue),
                               MessageId(workers[w].res), now)
          /\ workers' = [workers EXCEPT
               ![w].queue = Tail(@),
               ![w].handled = Append(@, [ guid |-> Head(workers[w].queue),
                                          res |-> workers[w].res ]),
               ![w].res = "",
               ![w].pc = IF Tail(workers[w].queue) = <<>> THEN "finish"
                         ELSE "send" ]
  /\ UNCHANGED << now, feeds, seq, host_semaphores, loop, cmd, sink,
                  bootsink, notices, advances, config, call >>

\* adaptive interval, schedule, reset the error count
poll_finish(w) ==
  /\ workers[w].pc = "finish"
  /\ LET interval == IF ~IsNone(workers[w].adaptive) /\ Val(workers[w].adaptive) # 0
                     THEN Val(workers[w].adaptive)
                     ELSE workers[w].poll_interval
     IN  \E j \in Jitter(interval, 25) :
           feeds' = reset_errors(
                      schedule_next_poll(feeds, workers[w].id, interval, j, now),
                      workers[w].id)
  /\ workers' = [workers EXCEPT ![w] = Done(w, "fresh")]
  /\ UNCHANGED << now, seq, posted_items, host_semaphores, loop, cmd, sink,
                  bootsink, notices, advances, config, call >>

\* except FeedGoneError: the notice (best effort)
poll_gone_notify(w) ==
  /\ workers[w].pc = "gone"
  /\ \E resolved \in BOOLEAN, ok \in BOOLEAN :
       IF ~resolved
       THEN /\ notices' = notices
            /\ workers' = [workers EXCEPT ![w].pc = "remove",
                                          ![w].res = "no channel"]
       ELSE /\ notices' = [notices EXCEPT ![workers[w].id] = @ + 1]
            /\ workers' = [workers EXCEPT ![w].pc = "remove",
                             ![w].res = IF ok THEN "sent" ELSE "send failed"]
  /\ UNCHANGED << now, feeds, seq, posted_items, host_semaphores, loop, cmd,
                  sink, bootsink, advances, config, call >>

\* Mutant of poll_gone_remove: remove_feed inside the try, after the send.
poll_gone_remove_in_try(w) ==
  /\ workers[w].pc = "remove"
  /\ IF workers[w].res = "send failed"
     THEN UNCHANGED << feeds, posted_items >>
     ELSE /\ feeds' = remove_feed_rows(feeds, workers[w].id)
          /\ posted_items' = remove_feed_cascade(posted_items, workers[w].id)
  /\ workers' = [workers EXCEPT ![w] =
       [ IdleWorker EXCEPT !.pc = "done", !.id = workers[w].id,
                           !.res = "gone", !.error = workers[w].res ]]
  /\ UNCHANGED << now, seq, host_semaphores, loop, cmd, sink, bootsink,
                  notices, advances, config, call >>

\* except FeedGoneError: await self.db.remove_feed(feed_id)
poll_gone_remove(w) ==
  /\ workers[w].pc = "remove"
  /\ feeds' = remove_feed_rows(feeds, workers[w].id)
  /\ posted_items' = remove_feed_cascade(posted_items, workers[w].id)
  /\ workers' = [workers EXCEPT ![w] =
       [ Done(w, "gone") EXCEPT !.error = workers[w].res ]]
  /\ UNCHANGED << now, seq, host_semaphores, loop, cmd, sink, bootsink,
                  notices, advances, config, call >>

\* Mutant of RateLimitBackoff: Retry-After taken as is when present.
RateLimitBackoffAsSent(retry_after) ==
  IF IsNone(retry_after) THEN RateLimitFloor ELSE Val(retry_after)

\* backoff = max(exc.retry_after or 0, 14400)
RateLimitBackoff(retry_after) ==
  Max(IF IsNone(retry_after) THEN 0 ELSE Val(retry_after), RateLimitFloor)

\* except FeedRateLimitError
poll_rate_limited(w) ==
  /\ workers[w].pc = "rate_limited"
  /\ LET backoff == RateLimitBackoff(workers[w].retry_after)
     IN  \E j \in Jitter(backoff, 25) :
           feeds' = schedule_next_poll(feeds, workers[w].id, backoff, j, now)
  /\ workers' = [workers EXCEPT ![w] =
       [ Done(w, "rate_limited") EXCEPT !.retry_after = workers[w].retry_after ]]
  /\ UNCHANGED << now, seq, posted_items, host_semaphores, loop, cmd, sink,
                  bootsink, notices, advances, config, call >>

ErrorBase(poll_interval, errors) == Min(poll_interval * Pow2(errors), BackoffCap)

\* except Exception
poll_error(w) ==
  /\ workers[w].pc = "error"
  /\ LET errors == workers[w].consecutive_errors + 1
         base == ErrorBase(workers[w].poll_interval, errors)
     IN  \E j1 \in Jitter(base, 10) :
           LET backoff == base + j1
           IN  \E j2 \in Jitter(backoff, 25) :
                 feeds' = schedule_next_poll(
                            update_feed_state(feeds, workers[w].id,
                              [ consecutive_errors |-> errors,
                                last_error |-> Some(workers[w].error) ]),
                            workers[w].id, backoff, j2, now)
  /\ workers' = [workers EXCEPT ![w] =
       [ Done(w, "error") EXCEPT !.error = workers[w].error ]]
  /\ UNCHANGED << now, seq, posted_items, host_semaphores, loop, cmd, sink,
                  bootsink, notices, advances, config, call >>

\* ------------------------------------------------------------------
\* bot.py: /feed add <url>, /feed remove <id>
\* ------------------------------------------------------------------
RECURSIVE GuidsOf(_)
GuidsOf(items) ==
  IF items = <<>> THEN <<>> ELSE <<Head(items).guid>> \o GuidsOf(Tail(items))

\* fetch and parse the feed, then the lookup of an existing subscription
feed_add_fetch(guilds, channels, bodies) ==
  /\ cmd.pc = "idle"
  /\ \E url \in Urls, guild \in guilds, ch \in channels, body \in bodies :
       /\ ~ParseFails(body)
       /\ LET existing == get_feed_by_url(feeds, url, guild)
          IN  IF existing # {}
              THEN /\ feeds' = update_feed_channel(feeds,
                                 CHOOSE i \in existing : TRUE, ch)
                   /\ cmd' = cmd
              ELSE /\ feeds' = feeds
                   /\ cmd' = [ IdleCmd EXCEPT !.pc = "add", !.url = url,
                                 !.guild_id = guild, !.channel_id = ch,
                                 !.items = GuidsOf(parse_feed(body)) ]
  /\ UNCHANGED << now, seq, posted_items, host_semaphores, loop, workers,
                  sink, bootsink, notices, advances, config, call >>

feed_add_start == feed_add_fetch(Guilds, Channels, Bodies)

\* feed_id = await self.bot.db.add_feed(...)
feed_add_insert ==
  /\ cmd.pc = "add"
  /\ IF UniqueViolation(feeds, cmd.url, cmd.guild_id)
     THEN /\ cmd' = IdleCmd
          /\ UNCHANGED << feeds, seq >>
     ELSE /\ seq < MaxAdds
          /\ seq' = Max(seq, NextId(feeds, seq))
          /\ feeds' = add_feed(feeds, NextId(feeds, seq), cmd.url,
                               cmd.channel_id, cmd.guild_id, now)
          /\ cmd' = [cmd EXCEPT !.pc = "journal",
                                !.feed_id = NextId(feeds, seq)]
  /\ UNCHANGED << now, posted_items, host_semaphores, loop, workers, sink,
                  bootsink, notices, advances, config, call >>

RECURSIVE RecordAll(_, _, _, _)
RecordAll(p, id, guids, t) ==
  IF guids = <<>> THEN p
  ELSE RecordAll(record_posted_item(p, id, Head(guids), None, t), id,
                 Tail(guids), t)

\* Mutant of InitialItems: the first N left in document order.
InitialItemsDocOrder(items) == Take(items, initial_items_count)

\* reversed(items[:count] if items else [])
InitialItems(items) == Reverse(Take(items, initial_items_count))

\* for item in items: record_posted_item(feed_id, item.guid)
feed_add_journal ==
  /\ cmd.pc = "journal"
  /\ IF cmd.items # <<>> /\ ForeignKeyFails(feeds, cmd.feed_id)
     THEN /\ cmd' = IdleCmd
          /\ posted_items' = posted_items
     ELSE /\ posted_items' = RecordAll(posted_items, cmd.feed_id, cmd.items, now)
          /\ LET initial == InitialItems(cmd.items)
             IN  cmd' = IF initial = <<>> THEN [cmd EXCEPT !.pc = "reply"]
                        ELSE [cmd EXCEPT !.pc = "post", !.queue = initial]
  /\ UNCHANGED << now, feeds, seq, host_semaphores, loop, workers, sink,
                  bootsink, notices, advances, config, call >>

\* for item in reversed(initial): target_channel.send(content), break on error
feed_add_post ==
  /\ cmd.pc = "post"
  /\ bootsink' = [bootsink EXCEPT ![<< cmd.feed_id, Head(cmd.queue) >>] = Min(@ + 1, 2)]
  /\ \E ok \in BOOLEAN :
       cmd' = [cmd EXCEPT !.queue = Tail(@),
                          !.sent = Append(@, Head(cmd.queue)),
                          !.failed = ~ok,
                          !.pc = IF ~ok \/ Tail(cmd.queue) = <<>>
                                 THEN "reply" ELSE "post"]
  /\ UNCHANGED << now, feeds, seq, posted_items, host_semaphores, loop,
                  workers, sink, notices, advances, config, call >>

\* interaction.followup.send("Subscribed to ...")
feed_add_reply ==
  /\ cmd.pc = "reply"
  /\ cmd' = IdleCmd
  /\ UNCHANGED << now, feeds, seq, posted_items, host_semaphores, loop,
                  workers, sink, bootsink, notices, advances, config, call >>

\* Mutant of InGuild: the id looked up without the guild check.
AnyGuild(f, id, guild) == id \in DOMAIN f

\* not feed or feed["guild_id"] != guild
InGuild(f, id, guild) == id \in DOMAIN f /\ f[id].guild_id = guild

\* /feed remove: get_feed, the guild check, remove_feed
feed_remove_effect(id, guild) ==
  IF InGuild(feeds, id, guild)
  THEN /\ feeds' = remove_feed_rows(feeds, id)
       /\ posted_items' = remove_feed_cascade(posted_items, id)
  ELSE UNCHANGED << feeds, posted_items >>

feed_remove ==
  /\ \E id \in FeedIds, guild \in Guilds : feed_remove_effect(id, guild)
  /\ UNCHANGED << now, seq, host_semaphores, loop, workers, cmd, sink,
                  bootsink, notices, advances, config, call >>

\* ------------------------------------------------------------------
\* Time
\* ------------------------------------------------------------------
\* asyncio.sleep(30) of the poll loop returns after 30 seconds or more
Advance ==
  /\ advances < MaxAdvances
  /\ loop.pc = "sleep"
  /\ now < loop.wake
  /\ \E d \in Delays : now' = now + d
  /\ advances' = advances + 1
  /\ UNCHANGED << feeds, seq, posted_items, host_semaphores, loop, workers,
                  cmd, sink, bootsink, notices, config, call >>

Next ==
  \/ poll_loop_dispatch
  \/ poll_loop_prune
  \/ \E w \in Workers : fetch_start(w)
  \/ \E w \in Workers : http_network_error(w)
  \/ \E w \in Workers : http_status(w, Statuses)
  \/ \E w \in Workers : http_ok(w)
  \/ \E w \in Workers : poll_not_modified(w)
  \/ \E w \in Workers : post_item_send(w)
  \/ \E w \in Workers : post_item_record(w)
  \/ \E w \in Workers : poll_finish(w)
  \/ \E w \in Workers : poll_gone_notify(w)
  \/ \E w \in Workers : poll_gone_remove(w)
  \/ \E w \in Workers : poll_rate_limited(w)
  \/ \E w \in Workers : poll_error(w)
  \/ feed_add_start
  \/ feed_add_insert
  \/ feed_add_journal
  \/ feed_add_post
  \/ feed_add_reply
  \/ feed_remove
  \/ Advance

Spec == Init /\ [][Next]_vars

\* ------------------------------------------------------------------
\* A restart on a store that holds three subscriptions, all due, whose
\* publishers answer 304 or 410: the per-host semaphores under load.
\* ------------------------------------------------------------------
HostAssignments ==
  { << <<"a", "/1">>, <<"a", "/2">>, <<"a", "/3">> >>,
    << <<"a", "/1">>, <<"a", "/2">>, <<"b", "/1">> >>,
    << <<"", "x">>, <<"a", "/2">>, <<"", "y">> >> }

InitHost ==
  /\ now = 0
  /\ \E urls \in HostAssignments :
       feeds = [ i \in {1, 2, 3} |-> NewRow(urls[i], 10, 1, 0) ]
  /\ seq = 3
  /\ posted_items = {}
  /\ host_semaphores = << >>
  /\ loop = [ pc |-> "sleep", last_prune |-> None, wake |-> 0 ]
  /\ workers = [ w \in Workers |-> IdleWorker ]
  /\ cmd = IdleCmd
  /\ sink = [ p \in Pairs |-> 0 ]
  /\ bootsink = [ p \in Pairs |-> 0 ]
  /\ notices = [ i \in FeedIds |-> 0 ]
  /\ advances = 0
  /\ config = ShippedConfig
  /\ call = NoCall

NextHost ==
  \/ poll_loop_dispatch
  \/ poll_loop_prune
  \/ \E w \in Workers : fetch_start(w)
  \/ \E w \in Workers : http_status(w, {304, 410})
  \/ \E w \in Workers : poll_not_modified(w)
  \/ \E w \in Workers : poll_gone_notify(w)
  \/ \E w \in Workers : poll_gone_remove(w)
  \/ Advance

SpecHost == InitHost /\ [][NextHost]_vars

\* ------------------------------------------------------------------
\* Failing store: a restart on two subscriptions (one URL, two guilds), with
\* publishers that answer 304 or 503 and a database whose reads and writes
\* may raise.
\* ------------------------------------------------------------------
\* asyncio.gather(*tasks, return_exceptions=True)
return_exceptions == TRUE

\* except asyncio.CancelledError: raise / except Exception: log
LoopCatches(exc) == exc # "CancelledError"

\* Mutant of EscapesLoop: the workers awaited with nothing around them.
EscapesLoopUnguarded(exc) == TRUE

\* an exception of a worker ends the loop only if gather re-raises it and the
\* loop's except clause does not take it
EscapesLoop(exc) == ~return_exceptions /\ ~LoopCatches(exc)

DbErrors == {"OperationalError"}

\* get_due_feeds raises: logged by the loop, which then sleeps
poll_loop_db_error ==
  /\ loop.pc = "sleep"
  /\ now >= loop.wake
  /\ \E exc \in DbErrors :
       loop' = IF LoopCatches(exc)
               THEN [loop EXCEPT !.wake = now + LoopSleep]
               ELSE [loop EXCEPT !.pc = "dead"]
  /\ UNCHANGED << now, feeds, seq, posted_items, host_semaphores, workers,
                  cmd, sink, bootsink, notices, advances, config, call >>

\* except Exception of _poll_feed, with a write of its own that raises:
\* update_feed_state (nothing written) or _schedule_next_poll (the error
\* count written, the schedule not); the exception leaves _poll_feed
poll_error_raises(w) ==
  /\ workers[w].pc = "error"
  /\ \E exc \in DbErrors, written \in BOOLEAN :
       /\ feeds' = IF written
                   THEN update_feed_state(feeds, workers[w].id,
                          [ consecutive_errors |-> workers[w].consecutive_errors + 1,
                            last_error |-> Some(workers[w].error) ])
                   ELSE feeds
       /\ loop' = IF EscapesLoop(exc) THEN [loop EXCEPT !.pc = "dead"] ELSE loop
  /\ workers' = [workers EXCEPT ![w] = Done(w, "raised")]
  /\ UNCHANGED << now, seq, posted_items, host_semaphores, cmd, sink,
                  bootsink, notices, advances, config, call >>

InitFault ==
  /\ now = 0
  /\ feeds = [ i \in {1, 2} |-> NewRow(<<"a", "/1">>, 10, i, 0) ]
  /\ seq = 2
  /\ posted_items = {}
  /\ host_semaphores = << >>
  /\ loop = [ pc |-> "sleep", last_prune |-> None, wake |-> 0 ]
  /\ workers = [ w \in Workers |-> IdleWorker ]
  /\ cmd = IdleCmd
  /\ sink = [ p \in Pairs |-> 0 ]
  /\ bootsink = [ p \in Pairs |-> 0 ]
  /\ notices = [ i \in FeedIds |-> 0 ]
  /\ advances = 0
  /\ config = ShippedConfig
  /\ call = NoCall

NextFault ==
  \/ poll_loop_dispatch
  \/ poll_loop_db_error
  \/ poll_loop_prune
  \/ \E w \in Workers : fetch_start(w)
  \/ \E w \in Workers : http_network_error(w)
  \/ \E w \in Workers : http_status(w, {304, 503})
  \/ \E w \in Workers : poll_not_modified(w)
  \/ \E w \in Workers : poll_error(w)
  \/ \E w \in Workers : poll_error_raises(w)
  \/ Advance

\* The event loop runs every task that is ready.
SpecFault == InitFault /\ [][NextFault]_vars /\ WF_vars(NextFault)

\* ------------------------------------------------------------------
\* A burst: a restart on one subscription with an empty journal whose
\* publisher serves one unchanging document of six entries, newest first,
\* with or without an ETag, and answers a conditional request with 304.
\* ------------------------------------------------------------------
BurstGuids == << "g6", "g5", "g4", "g3", "g2", "g1" >>
BurstDoc == [ i \in DOMAIN BurstGuids |-> Item(BurstGuids[i], None) ]
BurstBodies == { [bozo |-> FALSE, entries |-> BurstDoc] }
BurstValidators == { [etag |-> Some("e1"), last_modified |-> None],
                     [etag |-> None, last_modified |-> None] }

\* position of a guid in the document (1 is the newest entry)
DocIndex(g) == CHOOSE i \in DOMAIN BurstGuids : BurstGuids[i] = g

\* If-None-Match / If-Modified-Since are sent when the state holds them
IsConditional(id) ==
  /\ id \in DOMAIN feeds
  /\ (~IsNone(feeds[id].etag) \/ ~IsNone(feeds[id].last_modified))

\* the document is unchanged: a request that carries its validator gets 304,
\* any other request gets the document
http_burst(w) ==
  /\ ~IsConditional(workers[w].id)
  /\ http_200(w, BurstBodies, BurstValidators)

http_burst_not_modified(w) ==
  /\ IsConditional(workers[w].id)
  /\ http_status(w, {304})

InitBurst ==
  /\ now = 0
  /\ feeds = [ i \in {1} |-> NewRow(<<"a", "/1">>, 10, 1, 0) ]
  /\ seq = 1
  /\ posted_items = {}
  /\ host_semaphores = << >>
  /\ loop = [ pc |-> "sleep", last_prune |-> None, wake |-> 0 ]
  /\ workers = [ w \in Workers |-> IdleWorker ]
  /\ cmd = IdleCmd
  /\ sink = [ p \in FeedIds \X Range(BurstGuids) |-> 0 ]
  /\ bootsink = [ p \in FeedIds \X Range(BurstGuids) |-> 0 ]
  /\ notices = [ i \in FeedIds |-> 0 ]
  /\ advances = 0
  /\ config = ShippedConfig
  /\ call = NoCall

NextBurst ==
  \/ poll_loop_dispatch
  \/ poll_loop_prune
  \/ \E w \in Workers : fetch_start(w)
  \/ \E w \in Workers : http_burst(w)
  \/ \E w \in Workers : http_burst_not_modified(w)
  \/ \E w \in Workers : poll_not_modified(w)
  \/ \E w \in Workers : post_item_send(w)
  \/ \E w \in Workers : post_item_record(w)
  \/ \E w \in Workers : poll_finish(w)
  \/ Advance

SpecBurst == InitBurst /\ [][NextBurst]_vars

\* ------------------------------------------------------------------
\* A store of two subscriptions (one URL in two guilds) under direct calls,
\* as the tests and a second interaction make them, next to the lookup and
\* the insert of one /feed add; the process started with a configured
\* DEFAULT_POLL_INTERVAL.
\* ------------------------------------------------------------------
StoreUrls == { <<"a", "/1">>, <<"a", "/2">> }
StoreGuilds == {1, 2}
MessageIds == { None, Some(501) }

\* DEFAULT_POLL_INTERVAL unset, or set to another value
ConfiguredDefaults == { default_poll_interval, 2 * default_poll_interval }

\* keyword arguments of update_feed_state calls
StateUpdates ==
  { [ next_poll_at |-> None ],
    [ next_poll_at |-> Some(LoopSleep) ],
    [ next_poll_at |-> Some(PruneEvery) ],
    [ consecutive_errors |-> 1, last_error |-> Some("timeout") ],
    [ bogus_column |-> 1 ],
    [ consecutive_errors |-> 2, bogus_column |-> 1 ] }

\* a call begins: the caller is not in another call (n counts the calls)
CanCall == call.op = "" /\ call.n < MaxCalls
Called(op) == [ NoCall EXCEPT !.op = op, !.n = call.n + 1 ]

\* Database.add_feed
store_add_feed ==
  /\ CanCall
  /\ \E url \in StoreUrls, guild \in StoreGuilds :
       IF UniqueViolation(feeds, url, guild)
       THEN /\ UNCHANGED << feeds, seq >>
            /\ call' = [ Called("add_feed") EXCEPT !.url = url,
                           !.guild_id = guild, !.res = "IntegrityError" ]
       ELSE /\ NextId(feeds, seq) <= MaxRows
            /\ seq' = Max(seq, NextId(feeds, seq))
            /\ feeds' = add_feed(feeds, NextId(feeds, seq), url, 10, guild,
                                 now)
            /\ call' = [ Called("add_feed") EXCEPT !.url = url,
                           !.guild_id = guild, !.id = NextId(feeds, seq),
                           !.res = "ok" ]
  /\ UNCHANGED << now, posted_items, host_semaphores, loop, workers, cmd,
                  sink, bootsink, notices, advances, config >>

\* Database.update_feed_url
store_update_feed_url ==
  /\ CanCall
  /\ \E id \in FeedIds, url \in StoreUrls :
       IF UrlTaken(feeds, id, url)
       THEN /\ feeds' = feeds
            /\ call' = [ Called("update_feed_url") EXCEPT !.id = id,
                           !.url = url, !.res = "IntegrityError" ]
       ELSE /\ feeds' = update_feed_url(feeds, id, url)
            /\ call' = [ Called("update_feed_url") EXCEPT !.id = id,
                           !.url = url, !.res = "ok" ]
  /\ UNCHANGED << now, seq, posted_items, host_semaphores, loop, workers,
                  cmd, sink, bootsink, notices, advances, config >>

\* Database.remove_feed
store_remove_feed ==
  /\ CanCall
  /\ \E id \in FeedIds :
       /\ feeds' = remove_feed_rows(feeds, id)
       /\ posted_items' = remove_feed_cascade(posted_items, id)
       /\ call' = [ Called("remove_feed") EXCEPT !.id = id, !.res = "ok" ]
  /\ UNCHANGED << now, seq, host_semaphores, loop, workers, cmd, sink,
                  bootsink, notices, advances, config >>

\* Database.update_feed_state
store_update_feed_state ==
  /\ CanCall
  /\ \E id \in FeedIds, kw \in StateUpdates :
       /\ feeds' = update_feed_state(feeds, id, kw)
       /\ call' = [ Called("update_feed_state") EXCEPT !.id = id, !.kw = kw,
                      !.res = IF DOMAIN kw \subseteq _UPDATABLE_STATE_COLUMNS
                              THEN "ok" ELSE "ValueError" ]
  /\ UNCHANGED << now, seq, posted_items, host_semaphores, loop, workers,
                  cmd, sink, bootsink, notices, advances, config >>

\* Database.record_posted_item
store_record_posted_item ==
  /\ CanCall
  /\ \E id \in FeedIds, guid \in Guids, message_id \in MessageIds :
       IF ForeignKeyFails(feeds, id)
       THEN /\ posted_items' = posted_items
            /\ call' = [ Called("record_posted_item") EXCEPT !.id = id,
                           !.guid = guid, !.message_id = message_id,
                           !.res = "IntegrityError" ]
       ELSE /\ posted_items' = record_posted_item(posted_items, id, guid,
                                                  message_id, now)
            /\ call' = [ Called("record_posted_item") EXCEPT !.id = id,
                           !.guid = guid, !.message_id = message_id,
                           !.res = "ok" ]
  /\ UNCHANGED << now, feeds, seq, host_semaphores, loop, workers, cmd,
                  sink, bootsink, notices, advances, config >>

\* Database.get_due_feeds
store_get_due_feeds ==
  /\ CanCall
  /\ call' = [ Called("get_due_feeds") EXCEPT !.res = "ok",
                 !.rows = get_due_feeds(feeds, now) ]
  /\ UNCHANGED << now, feeds, seq, posted_items, host_semaphores, loop,
                  workers, cmd, sink, bootsink, notices, advances, config >>

\* the caller takes the result
store_return ==
  /\ call.op # ""
  /\ call' = [ NoCall EXCEPT !.n = call.n ]
  /\ UNCHANGED << now, feeds, seq, posted_items, host_semaphores, loop,
                  workers, cmd, sink, bootsink, notices, advances, config >>

\* time passes between two calls
store_elapse ==
  /\ advances < MaxAdvances
  /\ call.op = ""
  /\ \E d \in Delays : now' = now + d
  /\ advances' = advances + 1
  /\ UNCHANGED << feeds, seq, posted_items, host_semaphores, loop, workers,
                  cmd, sink, bootsink, notices, config, call >>

InitStore ==
  /\ now = 0
  /\ feeds = [ i \in {1, 2} |-> NewRow(<<"a", "/1">>, 10, i, 0) ]
  /\ seq = 2
  /\ posted_items = {}
  /\ host_semaphores = << >>
  /\ loop = [ pc |-> "sleep", last_prune |-> None, wake |-> 0 ]
  /\ workers = [ w \in Workers |-> IdleWorker ]
  /\ cmd = IdleCmd
  /\ sink = [ p \in Pairs |-> 0 ]
  /\ bootsink = [ p \in Pairs |-> 0 ]
  /\ notices = [ i \in FeedIds |-> 0 ]
  /\ advances = 0
  /\ config \in { [ default_poll_interval |-> d ] : d \in ConfiguredDefaults }
  /\ call = NoCall

NextStore ==
  \/ store_add_feed
  \/ store_update_feed_url
  \/ store_remove_feed
  \/ store_update_feed_state
  \/ store_record_posted_item
  \/ store_get_due_feeds
  \/ store_return
  \/ store_elapse
  \/ feed_add_start
  \/ feed_add_insert

SpecStore == InitStore /\ [][NextStore]_vars

\* ------------------------------------------------------------------
\* Two guilds, each with one subscription and one journal entry, and members
\* of both issuing /feed add <id>, /feed remove, /feed preview <id> and
\* /feed list; the reply of each command is observed.
\* ------------------------------------------------------------------
MoveChannels == {10, 20}

Reply(op, id, guild, res) ==
  [ NoCall EXCEPT !.op = op, !.id = id, !.guild_id = guild, !.res = res ]

\* /feed add <id>: get_feed and the guild check
feed_add_lookup_id ==
  /\ cmd.pc = "idle"
  /\ \E id \in FeedIds, guild \in StoreGuilds, ch \in MoveChannels :
       IF InGuild(feeds, id, guild)
       THEN /\ cmd' = [ IdleCmd EXCEPT !.pc = "move", !.feed_id = id,
                          !.guild_id = guild, !.channel_id = ch ]
            /\ call' = call
       ELSE /\ cmd' = cmd
            /\ call' = Reply("feed_add", id, guild, "not found")
  /\ UNCHANGED << now, feeds, seq, posted_items, host_semaphores, loop,
                  workers, sink, bootsink, notices, advances, config >>

\* /feed add <id>: update_feed_channel and the reply
feed_add_move ==
  /\ cmd.pc = "move"
  /\ feeds' = update_feed_channel(feeds, cmd.feed_id, cmd.channel_id)
  /\ call' = Reply("feed_add", cmd.feed_id, cmd.guild_id, "moved")
  /\ cmd' = IdleCmd
  /\ UNCHANGED << now, seq, posted_items, host_semaphores, loop, workers,
                  sink, bootsink, notices, advances, config >>

\* /feed remove with its reply
feed_remove_scoped ==
  /\ \E id \in FeedIds, guild \in StoreGuilds :
       /\ feed_remove_effect(id, guild)
       /\ call' = Reply("feed_remove", id, guild,
                        IF InGuild(feeds, id, guild) THEN "removed"
                        ELSE "not found")
  /\ UNCHANGED << now, seq, host_semaphores, loop, workers, cmd, sink,
                  bootsink, notices, advances, config >>

\* /feed preview <id>: get_feed and the guild check, then the preview
feed_preview_id ==
  /\ \E id \in FeedIds, guild \in StoreGuilds :
       call' = Reply("feed_preview", id, guild,
                     IF InGuild(feeds, id, guild) THEN "preview"
                     ELSE "not found")
  /\ UNCHANGED << now, feeds, seq, posted_items, host_semaphores, loop,
                  workers, cmd, sink, bootsink, notices, advances, config >>

\* /feed list
feed_list ==
  /\ \E guild \in StoreGuilds :
       call' = [ Reply("feed_list", 0, guild, "listed")
                   EXCEPT !.listed = list_feeds(feeds, guild) ]
  /\ UNCHANGED << now, feeds, seq, posted_items, host_semaphores, loop,
                  workers, cmd, sink, bootsink, notices, advances, config >>

InitScope ==
  /\ now = 0
  /\ feeds = [ i \in {1, 2} |-> NewRow(<<"a", "/1">>, 10, i, 0) ]
  /\ seq = 2
  /\ posted_items = { [feed_id |-> i, item_guid |-> "g1", posted_at |-> 0,
                       message_id |-> None] : i \in {1, 2} }
  /\ host_semaphores = << >>
  /\ loop = [ pc |-> "sleep", last_prune |-> None, wake |-> 0 ]
  /\ workers = [ w \in Workers |-> IdleWorker ]
  /\ cmd = IdleCmd
  /\ sink = [ p \in Pairs |-> 0 ]
  /\ bootsink = [ p \in Pairs |-> 0 ]
  /\ notices = [ i \in FeedIds |-> 0 ]
  /\ advances = 0
  /\ config = ShippedConfig
  /\ call = NoCall

NextScope ==
  \/ feed_add_lookup_id
  \/ feed_add_move
  \/ feed_remove_scoped
  \/ feed_preview_id
  \/ feed_list

SpecScope == InitScope /\ [][NextScope]_vars

\* ------------------------------------------------------------------
\* /feed add <url> on an empty store, by members of two guilds, for a
\* publisher whose document has none to six entries, newest first.
\* ------------------------------------------------------------------
BootLengths == {0, 1, 2, 3, 4, 6}
BootBodies ==
  { [bozo |-> FALSE, entries |-> Take(BurstDoc, k)] : k \in BootLengths }

feed_add_boot == feed_add_fetch(StoreGuilds, MoveChannels, BootBodies)

InitBoot ==
  /\ now = 0
  /\ feeds = << >>
  /\ seq = 0
  /\ posted_items = {}
  /\ host_semaphores = << >>
  /\ loop = [ pc |-> "sleep", last_prune |-> None, wake |-> 0 ]
  /\ workers = [ w \in Workers |-> IdleWorker ]
  /\ cmd = IdleCmd
  /\ sink = [ p \in FeedIds \X Range(BurstGuids) |-> 0 ]
  /\ bootsink = [ p \in FeedIds \X Range(BurstGuids) |-> 0 ]
  /\ notices = [ i \in FeedIds |-> 0 ]
  /\ advances = 0
  /\ config = ShippedConfig
  /\ call = NoCall

NextBoot ==
  \/ feed_add_boot
  \/ feed_add_insert
  \/ feed_add_journal
  \/ feed_add_post
  \/ feed_add_reply

SpecBoot == InitBoot /\ [][NextBoot]_vars

\* ------------------------------------------------------------------
\* One subscription polled against a publisher that may answer with any of
\* a range of statuses and Retry-After headers; the response the worker
\* got is observed next to what the worker made of it.
\* ------------------------------------------------------------------
ObservedStatuses ==
  {200, 204, 304, 400, 403, 404, 410, 429, 499, 500, 503, 599}
ObservedHeaders == RetryHeaders \cup { [kind |-> "text", n |-> 0] }

\* length in bytes of the body of a 200 response
BodySizes == {MAX_FEED_BYTES - 1, MAX_FEED_BYTES, MAX_FEED_BYTES + 1}

Response(status, h, size) ==
  [ NoCall EXCEPT !.op = "GET", !.status = status, !.retry_raw = h,
                  !.size = size ]

\* Retry-After is looked at for 429 and 403 only; body = await resp.text()
\* reads the body of a 200 to its end, whatever its length
http_observed(w) ==
  \E status \in ObservedStatuses, h \in ObservedHeaders, size \in BodySizes :
    /\ call' = Response(status,
                        IF status \in {429, 403} THEN h ELSE << >>,
                        IF status = 200 THEN size ELSE 0)
    /\ IF status = 200 THEN http_200_parse(w, Bodies, Validators)
       ELSE http_classify(w, status, h)

InitFetch ==
  /\ now = 0
  /\ feeds = [ i \in {1} |-> NewRow(<<"a", "/1">>, 10, 1, 0) ]
  /\ seq = 1
  /\ posted_items = {}
  /\ host_semaphores = << >>
  /\ loop = [ pc |-> "sleep", last_prune |-> None, wake |-> 0 ]
  /\ workers = [ w \in Workers |-> IdleWorker ]
  /\ cmd = IdleCmd
  /\ sink = [ p \in Pairs |-> 0 ]
  /\ bootsink = [ p \in Pairs |-> 0 ]
  /\ notices = [ i \in FeedIds |-> 0 ]
  /\ advances = 0
  /\ config = ShippedConfig
  /\ call = NoCall

NextFetch ==
  \/ poll_loop_dispatch
  \/ poll_loop_prune
  \/ \E w \in Workers : fetch_start(w)
  \/ \E w \in Workers : http_network_error(w)
  \/ \E w \in Workers : http_observed(w)
  \/ \E w \in Workers : poll_not_modified(w)
  \/ \E w \in Workers : post_item_send(w)
  \/ \E w \in Workers : post_item_record(w)
  \/ \E w \in Workers : poll_finish(w)
  \/ \E w \in Workers : poll_gone_notify(w)
  \/ \E w \in Workers : poll_gone_remove(w)
  \/ \E w \in Workers : poll_rate_limited(w)
  \/ \E w \in Workers : poll_error(w)
  \/ Advance

SpecFetch == InitFetch /\ [][NextFetch]_vars

\* ------------------------------------------------------------------
\* discovery.py: discover_feed_url against a web site, given as what each
\* request of the procedure would meet there.
\* ------------------------------------------------------------------
_WELL_KNOWN_PATHS ==
  << "/feed", "/feed.xml", "/rss.xml", "/atom.xml", "/rss", "/index.xml",
     "/feed.json", "/blog/feed" >>

\* GET url: the request raises, the body is a valid feed, the body is HTML
\* that is no feed, or it is neither
DirectOutcomes == {"fail", "feed", "html", "other"}
\* GET of a <link> href: the body is no feed, is a valid feed, or it raises
LinkOutcomes == {"invalid", "feed", "fail"}
\* a well-known path: HEAD is not 200 or not feed-like ("skip"), the body
\* of the GET is no feed, is a valid feed, or a request raises
PathOutcomes == {"skip", "invalid", "feed", "fail"}

\* the feed links of an HTML page, in document order (_find_feed_links)
LinkLists == {<<>>} \cup [1..1 -> LinkOutcomes] \cup [1..2 -> LinkOutcomes]

\* sites that answer on at most two of the well-known paths
WellKnownSites ==
  { f \in [DOMAIN _WELL_KNOWN_PATHS -> PathOutcomes] :
      Cardinality({ i \in DOMAIN f : f[i] # "skip" }) <= 2 }

Webs ==
  { [direct |-> d, links |-> l, well_known |-> k] :
      d \in DirectOutcomes, l \in LinkLists, k \in WellKnownSites }

\* for x in xs: try: if _is_valid_feed(GET x): return x; except: continue
RECURSIVE FirstFeed(_, _)
FirstFeed(outcomes, i) ==
  IF i > Len(outcomes) THEN 0
  ELSE IF outcomes[i] = "feed" THEN i
  ELSE FirstFeed(outcomes, i + 1)

Found(how, i) == [res |-> "ok", url |-> << how, i >>]
NotFound == [res |-> "FeedNotFoundError", url |-> << >>]

discover_feed_url(web) ==
  IF web.direct = "fail" THEN NotFound
  ELSE IF web.direct = "feed" THEN Found("url", 0)
  ELSE LET link == IF web.direct = "html" THEN FirstFeed(web.links, 1) ELSE 0
           path == FirstFeed(web.well_known, 1)
       IN  IF link > 0 THEN Found("link", link)
           ELSE IF path > 0 THEN Found("well-known", path)
           ELSE NotFound

\* a call of discover_feed_url, as /feed add and /feed preview make it
discover ==
  /\ call.op = ""
  /\ \E web \in Webs :
       /\ web.direct # "html" => web.links = <<>>
       /\ LET r == discover_feed_url(web)
          IN  call' = [ NoCall EXCEPT !.op = "discover_feed_url", !.kw = web,
                                      !.res = r.res, !.rows = r.url ]
  /\ UNCHANGED << now, feeds, seq, posted_items, host_semaphores, loop,
                  workers, cmd, sink, bootsink, notices, advances, config >>

NextDiscover == discover

SpecDiscover == Init /\ [][NextDiscover]_vars

\* ------------------------------------------------------------------
\* parser.py: _strip_boilerplate. A summary is a sequence of characters.
\* ------------------------------------------------------------------
Rep(ch, n) == [ i \in 1..n |-> ch ]

StartsWith(str, prefix) ==
  Len(prefix) <= Len(str) /\ SubSeq(str, 1, Len(prefix)) = prefix
EndsWith(str, suffix) ==
  /\ Len(suffix) <= Len(str)
  /\ SubSeq(str, Len(str) - Len(suffix) + 1, Len(str)) = suffix

RECURSIVE LStrip(_)
LStrip(str) ==
  IF str # <<>> /\ Head(str) = " " THEN LStrip(Tail(str)) ELSE str
RECURSIVE RStrip(_)
RStrip(str) ==
  IF str # <<>> /\ str[Len(str)] = " "
  THEN RStrip(SubSeq(str, 1, Len(str) - 1)) ELSE str

\* min(strings, key=len): the first of the shortest
Shortest(strings) ==
  strings[CHOOSE i \in DOMAIN strings :
            \A j \in DOMAIN strings :
              /\ Len(strings[i]) <= Len(strings[j])
              /\ j < i => Len(strings[i]) < Len(strings[j])]

\* max(2, int(len(strings) * _SUPERMAJORITY))
Threshold(strings) == Max(2, (Len(strings) * 8) \div 10)

\* while candidate: ... candidate = candidate[:-1]
RECURSIVE ShrinkPrefix(_, _)
ShrinkPrefix(candidate, strings) ==
  IF candidate = <<>> THEN <<>>
  ELSE IF Cardinality({ i \in DOMAIN strings :
                          StartsWith(strings[i], candidate) })
            >= Threshold(strings)
       THEN candidate
       ELSE ShrinkPrefix(SubSeq(candidate, 1, Len(candidate) - 1), strings)

\* while candidate: ... candidate = candidate[1:]
RECURSIVE ShrinkSuffix(_, _)
ShrinkSuffix(candidate, strings) ==
  IF candidate = <<>> THEN <<>>
  ELSE IF Cardinality({ i \in DOMAIN strings :
                          EndsWith(strings[i], candidate) })
            >= Threshold(strings)
       THEN candidate
       ELSE ShrinkSuffix(Tail(candidate), strings)

Spaces(str) == { i \in DOMAIN str : str[i] = " " }

_majority_common_prefix(strings) ==
  IF strings = <<>> THEN <<>>
  ELSE LET candidate == ShrinkPrefix(Shortest(strings), strings)
       IN  IF Spaces(candidate) = {} THEN <<>>
           ELSE SubSeq(candidate, 1,
                  CHOOSE i \in Spaces(candidate) :
                    \A j \in Spaces(candidate) : j <= i)

_majority_common_suffix(strings) ==
  IF strings = <<>> THEN <<>>
  ELSE LET candidate == ShrinkSuffix(Shortest(strings), strings)
       IN  IF Spaces(candidate) = {} THEN <<>>
           ELSE SubSeq(candidate,
                  (CHOOSE i \in Spaces(candidate) :
                     \A j \in Spaces(candidate) : i <= j) + 1,
                  Len(candidate))

StripPrefix(summaries) ==
  LET prefix == _majority_common_prefix(summaries)
  IN  IF Len(prefix) >= _BOILERPLATE_MIN_LEN
      THEN [ i \in DOMAIN summaries |->
               IF StartsWith(summaries[i], prefix)
               THEN LStrip(SubSeq(summaries[i], Len(prefix) + 1,
                                  Len(summaries[i])))
               ELSE summaries[i] ]
      ELSE summaries

StripSuffix(summaries) ==
  LET suffix == _majority_common_suffix(summaries)
  IN  IF Len(suffix) >= _BOILERPLATE_MIN_LEN
      THEN [ i \in DOMAIN summaries |->
               IF EndsWith(summaries[i], suffix)
               THEN RStrip(SubSeq(summaries[i], 1,
                                  Len(summaries[i]) - Len(suffix)))
               ELSE summaries[i] ]
      ELSE summaries

_strip_boilerplate(summaries) ==
  IF Len(summaries) < 2 THEN summaries
  ELSE StripSuffix(StripPrefix(summaries))

\* Summaries of a newsletter feed: a header line, a stock phrase and a
\* footer, each longer than _BOILERPLATE_MIN_LEN, around short texts.
Header == Rep("h", 11) \o <<" ">> \o Rep("h", 11) \o <<" ">>
Phrase == Rep("c", 10) \o <<" ">> \o Rep("c", 10) \o <<" ">>
Footer == <<" ">> \o Rep("f", 10) \o <<" ">> \o Rep("f", 10)

Summaries ==
  { <<>>, <<"k">>,
    Header \o <<"x">>,
    Header \o Phrase \o <<"a">>,
    Header \o Rep("z", 30),
    Phrase \o <<"b">> \o Rep("y", 30),
    Header \o <<"a">> \o Footer,
    <<"b">> \o Footer }

SummaryLists == [1..1 -> Summaries] \cup [1..2 -> Summaries]
                  \cup [1..3 -> Summaries]

\* parse_feed: the trim pass over the summaries of one document
strip_boilerplate ==
  /\ call.op = ""
  /\ \E summaries \in SummaryLists :
       call' = [ NoCall EXCEPT !.op = "_strip_boilerplate",
                               !.kw = summaries,
                               !.rows = _strip_boilerplate(summaries) ]
  /\ UNCHANGED << now, feeds, seq, posted_items, host_semaphores, loop,
                  workers, cmd, sink, bootsink, notices, advances, config >>

\* the trim pass over the output of the trim pass
strip_boilerplate_again ==
  /\ call.op = "_strip_boilerplate"
  /\ call' = [ call EXCEPT !.op = "_strip_boilerplate again",
                           !.rows = _strip_boilerplate(call.rows) ]
  /\ UNCHANGED << now, feeds, seq, posted_items, host_semaphores, loop,
                  workers, cmd, sink, bootsink, notices, advances, config >>

NextTrim ==
  \/ strip_boilerplate
  \/ strip_boilerplate_again

SpecTrim == Init /\ [][NextTrim]_vars

\* ------------------------------------------------------------------
\* Database.initialise on a database file that may hold the earlier
\* layout. A file is a function from table names to tables; a table is its
\* set of columns and its rows by primary key.
\* ------------------------------------------------------------------
LegacyFeedColumns == {"url", "channel_id", "guild_id", "created_at"}
FeedColumns == LegacyFeedColumns \cup _UPDATABLE_STATE_COLUMNS
PostedColumns == {"feed_id", "item_guid", "posted_at", "message_id"}

\* what executescript(_SCHEMA) creates when the table is not there
SchemaTable(name) ==
  [ columns |-> IF name = "feeds" THEN FeedColumns ELSE PostedColumns,
    rows |-> << >> ]

LegacyRow(i) ==
  [ url |-> <<"a", "/1">>, channel_id |-> 10, guild_id |-> i,
    created_at |-> 0 ]

\* rows of the sidecar table feed_state
SidecarStates ==
  { [ etag |-> e, last_modified |-> None, last_poll_at |-> Some(0),
      next_poll_at |-> Some(n), poll_interval |-> n,
      consecutive_errors |-> c, last_error |-> None ] :
      e \in {None, Some("e1")}, n \in {900, 1800}, c \in {0, 2} }

RowSets == SUBSET {1, 2}

\* a file written by the earlier schema
LegacyFiles ==
  { [ t \in {"feeds", "feed_state", "posted_items"} |->
        IF t = "feeds"
        THEN [ columns |-> LegacyFeedColumns,
               rows |-> [ i \in ids |-> LegacyRow(i) ] ]
        ELSE IF t = "feed_state"
        THEN [ columns |-> {"feed_id"} \cup _UPDATABLE_STATE_COLUMNS,
               rows |-> st ]
        ELSE [ columns |-> PostedColumns, rows |-> << >> ] ] :
      ids \in RowSets, st \in UNION { [ sub -> SidecarStates ] :
                                       sub \in RowSets } }

\* a file written by _SCHEMA
UnifiedFiles ==
  { [ t \in {"feeds", "posted_items"} |->
        IF t = "feeds"
        THEN [ columns |-> FeedColumns,
               rows |-> [ i \in ids |-> NewRow(<<"a", "/1">>, 10, i, 0) ] ]
        ELSE [ columns |-> PostedColumns, rows |-> << >> ] ] :
      ids \in RowSets }

DbFiles == { << >> } \cup LegacyFiles \cup UnifiedFiles

\* executescript(_SCHEMA): CREATE TABLE IF NOT EXISTS feeds, posted_items
initialise(file) ==
  [ t \in DOMAIN file \cup {"feeds", "posted_items"} |->
      IF t \in DOMAIN file THEN file[t] ELSE SchemaTable(t) ]

\* Database(path).initialise() on a file found at start
db_initialise ==
  /\ call.op = ""
  /\ \E file \in DbFiles :
       /\ "feed_state" \in DOMAIN file =>
            DOMAIN file["feed_state"].rows \subseteq DOMAIN file["feeds"].rows
       /\ call' = [ NoCall EXCEPT !.op = "initialise", !.kw = file,
                                  !.rows = initialise(file) ]
  /\ UNCHANGED << now, feeds, seq, posted_items, host_semaphores, loop,
                  workers, cmd, sink, bootsink, notices, advances, config >>

\* the next start of the process on the same file
db_initialise_again ==
  /\ call.op = "initialise"
  /\ call' = [ call EXCEPT !.op = "initialise again",
                           !.rows = initialise(call.rows) ]
  /\ UNCHANGED << now, feeds, seq, posted_items, host_semaphores, loop,
                  workers, cmd, sink, bootsink, notices, advances, config >>

NextMigrate ==
  \/ db_initialise
  \/ db_initialise_again

SpecMigrate == Init /\ [][NextMigrate]_vars

\* ------------------------------------------------------------------
\* Poller.stop while the loop sleeps, queries the due rows, or awaits the
\* workers of two due subscriptions.
\* ------------------------------------------------------------------
\* Mutant of CancelLoop: stop() that leaves the task alone.
CancelLoopForgotten(l) == l

\* self._poll_task.cancel(): CancelledError will be thrown into the loop at
\* the await it is suspended at
CancelLoop(l) ==
  [ l EXCEPT !.pc = IF l.pc = "gather" THEN "cancel_gather" ELSE "cancel" ]

\* cancelling the gather future cancels every child that is not done:
\* CancelledError will be thrown into the child at its await
CancelChild(wk) ==
  IF wk.pc \in {"idle", "done"} THEN wk
  ELSE [ wk EXCEPT !.pc = "cancelling", !.res = wk.pc ]

\* the sleep is over: await self.db.get_due_feeds() is entered
poll_loop_query ==
  /\ loop.pc = "sleep"
  /\ now >= loop.wake
  /\ loop' = [loop EXCEPT !.pc = "query"]
  /\ UNCHANGED << now, feeds, seq, posted_items, host_semaphores, workers,
                  cmd, sink, bootsink, notices, advances, config, call >>

\* the query has answered
poll_loop_gather ==
  /\ loop.pc = "query"
  /\ create_tasks

\* stop(): _running = False, cancel the task, await it
poller_stop ==
  /\ call.op = ""
  /\ loop.pc \in {"sleep", "query", "gather"}
  /\ loop' = CancelLoop(loop)
  /\ workers' = IF loop'.pc = "cancel_gather"
                THEN [ w \in Workers |-> CancelChild(workers[w]) ]
                ELSE workers
  /\ call' = [ NoCall EXCEPT !.op = "stop", !.res = "awaiting" ]
  /\ UNCHANGED << now, feeds, seq, posted_items, host_semaphores, cmd, sink,
                  bootsink, notices, advances, config >>

\* CancelledError in _poll_feed: no except clause takes it; async with sem
\* releases the semaphore when the request was under way
worker_cancelled(w) ==
  /\ workers[w].pc = "cancelling"
  /\ IF workers[w].res = "http" THEN Release(w)
     ELSE host_semaphores' = host_semaphores
  /\ workers' = [workers EXCEPT ![w] = Done(w, "cancelled")]
  /\ UNCHANGED << now, feeds, seq, posted_items, loop, cmd, sink, bootsink,
                  notices, advances, config, call >>

\* CancelledError in _poll_loop: at the sleep or the query at once, at the
\* gather when every child is done; except CancelledError: raise
loop_cancelled ==
  /\ \/ loop.pc = "cancel"
     \/ loop.pc = "cancel_gather" /\ GatherDone
  /\ ~LoopCatches("CancelledError")
  /\ loop' = [loop EXCEPT !.pc = "cancelled"]
  /\ UNCHANGED << now, feeds, seq, posted_items, host_semaphores, workers,
                  cmd, sink, bootsink, notices, advances, config, call >>

\* await self._poll_task returns; the session is closed
stop_return ==
  /\ call.op = "stop" /\ call.res = "awaiting"
  /\ loop.pc = "cancelled"
  /\ call' = [call EXCEPT !.res = "returned"]
  /\ UNCHANGED << now, feeds, seq, posted_items, host_semaphores, loop,
                  workers, cmd, sink, bootsink, notices, advances, config >>

NextStop ==
  \/ poll_loop_query
  \/ poll_loop_gather
  \/ poll_loop_prune
  \/ \E w \in Workers : fetch_start(w)
  \/ \E w \in Workers : http_network_error(w)
  \/ \E w \in Workers : http_status(w, {304, 503})
  \/ \E w \in Workers : http_ok(w)
  \/ \E w \in Workers : poll_not_modified(w)
  \/ \E w \in Workers : post_item_send(w)
  \/ \E w \in Workers : post_item_record(w)
  \/ \E w \in Workers : poll_finish(w)
  \/ \E w \in Workers : poll_error(w)
  \/ poller_stop
  \/ \E w \in Workers : worker_cancelled(w)
  \/ loop_cancelled
  \/ stop_return

\* The event loop runs every task that is ready.
SpecStop == InitFault /\ [][NextStop]_vars /\ WF_vars(NextStop)

\* ------------------------------------------------------------------
\* A restart on two due subscriptions that have failed zero to three
\* times in a row before: the counter, the message and the interval that
\* the error branch of _poll_feed persisted.
\* ------------------------------------------------------------------
PriorStates ==
  { [ consecutive_errors |-> 0, last_error |-> None, poll_interval |-> 900 ],
    [ consecutive_errors |-> 1, last_error |-> Some("server error"),
      poll_interval |-> 1800 ],
    [ consecutive_errors |-> 2, last_error |-> Some("server error"),
      poll_interval |-> 7200 ],
    [ consecutive_errors |-> 3, last_error |-> Some("network"),
      poll_interval |-> 57600 ] }

PriorRow(i, st) ==
  [ NewRow(<<"a", "/1">>, 10, i, 0) EXCEPT
      !.consecutive_errors = st.consecutive_errors,
      !.last_error = st.last_error,
      !.poll_interval = st.poll_interval ]

InitReset ==
  /\ now = 0
  /\ \E st \in PriorStates : feeds = [ i \in {1, 2} |-> PriorRow(i, st) ]
  /\ seq = 2
  /\ posted_items = {}
  /\ host_semaphores = << >>
  /\ loop = [ pc |-> "sleep", last_prune |-> None, wake |-> 0 ]
  /\ workers = [ w \in Workers |-> IdleWorker ]
  /\ cmd = IdleCmd
  /\ sink = [ p \in Pairs |-> 0 ]
  /\ bootsink = [ p \in Pairs |-> 0 ]
  /\ notices = [ i \in FeedIds |-> 0 ]
  /\ advances = 0
  /\ config = ShippedConfig
  /\ call = NoCall

NextReset ==
  \/ poll_loop_dispatch
  \/ poll_loop_prune
  \/ \E w \in Workers : fetch_start(w)
  \/ \E w \in Workers : http_network_error(w)
  \/ \E w \in Workers : http_status(w, {304, 503})
  \/ \E w \in Workers : http_ok(w)
  \/ \E w \in Workers : poll_not_modified(w)
  \/ \E w \in Workers : post_item_send(w)
  \/ \E w \in Workers : post_item_record(w)
  \/ \E w \in Workers : poll_finish(w)
  \/ \E w \in Workers : poll_error(w)

SpecReset == InitReset /\ [][NextReset]_vars

\* ------------------------------------------------------------------
\* A slow publisher: subscription 1 is due at the start, subscription 2,
\* polled by an earlier run, falls due ten seconds later, and the clock
\* moves while the worker of subscription 1 waits for the network.
\* ------------------------------------------------------------------
WaitDelays == {10, 20}

SecondDueAt == 10

InitSlow ==
  /\ now = 0
  /\ feeds = [ i \in {1, 2} |->
       IF i = 1 THEN NewRow(<<"a", "/1">>, 10, 1, 0)
       ELSE [ NewRow(<<"b", "/1">>, 10, 1, 0) EXCEPT
                !.next_poll_at = Some(SecondDueAt) ] ]
  /\ seq = 2
  /\ posted_items = {}
  /\ host_semaphores = << >>
  /\ loop = [ pc |-> "sleep", last_prune |-> None, wake |-> 0 ]
  /\ workers = [ w \in Workers |-> IdleWorker ]
  /\ cmd = IdleCmd
  /\ sink = [ p \in Pairs |-> 0 ]
  /\ bootsink = [ p \in Pairs |-> 0 ]
  /\ notices = [ i \in FeedIds |-> 0 ]
  /\ advances = 0
  /\ config = ShippedConfig
  /\ call = NoCall

\* Time passes at an await of a worker: the request, for no longer than
\* ClientTimeout(total=30) since the loop woke, or channel.send, which has
\* no timeout
worker_wait(w) ==
  /\ advances < MaxWaits
  /\ \E d \in WaitDelays :
       /\ \/ /\ workers[w].pc = "http"
             /\ now + d - loop.wake <= RequestTimeout
          \/ workers[w].pc = "send"
       /\ now' = now + d
  /\ advances' = advances + 1
  /\ UNCHANGED << feeds, seq, posted_items, host_semaphores, loop, workers,
                  cmd, sink, bootsink, notices, config, call >>

\* asyncio.sleep(30) of the poll loop returns
sleep_returns ==
  /\ advances < MaxWaits
  /\ loop.pc = "sleep"
  /\ now < loop.wake
  /\ now' = loop.wake
  /\ advances' = advances + 1
  /\ UNCHANGED << feeds, seq, posted_items, host_semaphores, loop, workers,
                  cmd, sink, bootsink, notices, config, call >>

NextSlow ==
  \/ poll_loop_dispatch
  \/ poll_loop_prune
  \/ \E w \in Workers : fetch_start(w)
  \/ \E w \in Workers : worker_wait(w)
  \/ \E w \in Workers : http_network_error(w)
  \/ \E w \in Workers : http_status(w, {304, 503})
  \/ \E w \in Workers : http_ok(w)
  \/ \E w \in Workers : poll_not_modified(w)
  \/ \E w \in Workers : post_item_send(w)
  \/ \E w \in Workers : post_item_record(w)
  \/ \E w \in Workers : poll_finish(w)
  \/ \E w \in Workers : poll_error(w)
  \/ sleep_returns

SpecSlow == InitSlow /\ [][NextSlow]_vars

\* ------------------------------------------------------------------
\* Conditional requests: one subscription whose row holds the validators
\* of an earlier poll (none, an ETag, a Last-Modified, both); the request
\* headers and the validators of a 200 response are observed.
\* ------------------------------------------------------------------
\* ETag / Last-Modified of a response: absent, empty, or a value
SeenValidators ==
  { [etag |-> e, last_modified |-> m] :
      e \in {None, Some(""), Some("e1")}, m \in {None, Some("m1")} }

\* what an earlier 200 left in the row
StoredValidators ==
  { [etag |-> e, last_modified |-> m] :
      e \in {None, Some(""), Some("e0")}, m \in {None, Some("m0")} }

\* if state.get("etag"): ... (None and "" are falsy)
Truthy(v) == ~IsNone(v) /\ Val(v) # ""

\* Mutant of RequestHeaders: If-Modified-Since is never sent.
RequestHeadersEtagOnly(f, id) ==
  [ if_none_match |->
      IF id \in DOMAIN f /\ Truthy(f[id].etag) THEN f[id].etag ELSE None,
    if_modified_since |-> None ]

\* state = get_feed_state(feed_id); the conditional headers of the request
RequestHeaders(f, id) ==
  [ if_none_match |->
      IF id \in DOMAIN f /\ Truthy(f[id].etag) THEN f[id].etag ELSE None,
    if_modified_since |->
      IF id \in DOMAIN f /\ Truthy(f[id].last_modified)
      THEN f[id].last_modified ELSE None ]

fetch_observed(w) ==
  /\ fetch_acquire(w)
  /\ call' = [ NoCall EXCEPT !.op = "request", !.id = workers[w].id,
                 !.kw = RequestHeaders(feeds, workers[w].id) ]

http_200_observed(w) ==
  \E hdr \in SeenValidators :
    /\ http_200_parse(w, Bodies, {hdr})
    /\ call' = [ NoCall EXCEPT !.op = "response", !.id = workers[w].id,
                   !.status = 200, !.kw = hdr,
                   !.res = IF workers'[w].pc = "error" THEN "unparseable"
                           ELSE "parsed" ]

InitCond ==
  /\ now = 0
  /\ \E v \in StoredValidators :
       feeds = [ i \in {1} |->
                 [ NewRow(<<"a", "/1">>, 10, 1, 0) EXCEPT
                     !.etag = v.etag, !.last_modified = v.last_modified ] ]
  /\ seq = 1
  /\ posted_items = {}
  /\ host_semaphores = << >>
  /\ loop = [ pc |-> "sleep", last_prune |-> None, wake |-> 0 ]
  /\ workers = [ w \in Workers |-> IdleWorker ]
  /\ cmd = IdleCmd
  /\ sink = [ p \in Pairs |-> 0 ]
  /\ bootsink = [ p \in Pairs |-> 0 ]
  /\ notices = [ i \in FeedIds |-> 0 ]
  /\ advances = 0
  /\ config = ShippedConfig
  /\ call = NoCall

NextCond ==
  \/ poll_loop_dispatch
  \/ poll_loop_prune
  \/ \E w \in Workers : fetch_observed(w)
  \/ \E w \in Workers : http_network_error(w)
  \/ \E w \in Workers : http_status(w, Statuses)
  \/ \E w \in Workers : http_200_observed(w)
  \/ \E w \in Workers : poll_not_modified(w)
  \/ \E w \in Workers : post_item_send(w)
  \/ \E w \in Workers : post_item_record(w)
  \/ \E w \in Workers : poll_finish(w)
  \/ \E w \in Workers : poll_gone_notify(w)
  \/ \E w \in Workers : poll_gone_remove(w)
  \/ \E w \in Workers : poll_rate_limited(w)
  \/ \E w \in Workers : poll_error(w)
  \/ Advance

SpecCond == InitCond /\ [][NextCond]_vars

\* ------------------------------------------------------------------
\* calculate_adaptive_interval on lists of up to four publication times,
\* in any order: two minutes, two hours and a day apart.
\* ------------------------------------------------------------------
PublishedAt == {0, 120, 240, 7200, 14400, 21600, 86400, 172800}

TimestampLists ==
  UNION { [1..n -> PublishedAt] : n \in 0..4 }

adaptive_interval ==
  /\ call.op = ""
  /\ \E ts \in TimestampLists :
       call' = [ NoCall EXCEPT !.op = "calculate_adaptive_interval",
                   !.kw = ts,
                   !.rows = calculate_adaptive_interval(
                              ts, min_poll_interval, max_poll_interval) ]
  /\ UNCHANGED << now, feeds, seq, posted_items, host_semaphores, loop,
                  workers, cmd, sink, bootsink, notices, advances, config >>

NextAdaptive == adaptive_interval

SpecAdaptive == Init /\ [][NextAdaptive]_vars

\* ------------------------------------------------------------------
\* The daily prune: one subscription, and a loop whose sleep ends after a
\* tick, a day, or ninety days and an hour.
\* ------------------------------------------------------------------
HourSeconds == 3600

SleepEnds == {LoopSleep, DaySeconds, PruneDays * DaySeconds + HourSeconds}

\* asyncio.sleep(30) returns, at once or after the process was suspended
sleep_ends ==
  /\ advances < MaxWaits
  /\ loop.pc = "sleep"
  /\ now < loop.wake
  /\ \E d \in SleepEnds : now' = now + d
  /\ advances' = advances + 1
  /\ UNCHANGED << feeds, seq, posted_items, host_semaphores, loop, workers,
                  cmd, sink, bootsink, notices, config, call >>

NextPrune ==
  \/ poll_loop_dispatch
  \/ poll_loop_prune
  \/ \E w \in Workers : fetch_start(w)
  \/ \E w \in Workers : http_status(w, {304})
  \/ \E w \in Workers : http_ok(w)
  \/ \E w \in Workers : poll_not_modified(w)
  \/ \E w \in Workers : post_item_send(w)
  \/ \E w \in Workers : post_item_record(w)
  \/ \E w \in Workers : poll_finish(w)
  \/ \E w \in Workers : poll_error(w)
  \/ sleep_ends

SpecPrune == InitFetch /\ [][NextPrune]_vars

\* ------------------------------------------------------------------
\* Polling again: one subscription over several cycles, with every outcome
\* but 410, a state write that may raise, and the loop ticking through the
\* time in which nothing is due.
\* ------------------------------------------------------------------
AgainBodies ==
  { [bozo |-> FALSE, entries |-> << Item("g1", None) >>],
    [bozo |-> TRUE, entries |-> <<>>] }

AgainValidators == { [etag |-> None, last_modified |-> None] }

\* the earliest time at which get_due_feeds selects a row or the prune runs
NextWork ==
  LET times == { IF IsNone(feeds[i].next_poll_at) THEN 0
                 ELSE Val(feeds[i].next_poll_at) : i \in DOMAIN feeds }
                 \cup { IF IsNone(loop.last_prune) THEN 0
                        ELSE Val(loop.last_prune) + PruneEvery }
  IN  CHOOSE t \in times : \A u \in times : t <= u

\* the first tick of the loop at or after NextWork
NextTick ==
  IF NextWork <= loop.wake THEN loop.wake
  ELSE loop.wake
         + LoopSleep * ((NextWork - loop.wake + LoopSleep - 1) \div LoopSleep)

\* asyncio.sleep(30) returns; the ticks at which no row is due and no prune
\* is due change nothing, the loop sleeps again
idle_ticks ==
  /\ advances < MaxJumps
  /\ loop.pc = "sleep"
  /\ now < loop.wake
  /\ now' = NextTick
  /\ advances' = advances + 1
  /\ UNCHANGED << feeds, seq, posted_items, host_semaphores, loop, workers,
                  cmd, sink, bootsink, notices, config, call >>

NextAgain ==
  \/ poll_loop_dispatch
  \/ poll_loop_prune
  \/ \E w \in Workers : fetch_start(w)
  \/ \E w \in Workers : http_network_error(w)
  \/ \E w \in Workers : http_status(w, {304, 429, 503})
  \/ \E w \in Workers : http_200(w, AgainBodies, AgainValidators)
  \/ \E w \in Workers : poll_not_modified(w)
  \/ \E w \in Workers : post_item_send(w)
  \/ \E w \in Workers : post_item_record(w)
  \/ \E w \in Workers : poll_finish(w)
  \/ \E w \in Workers : poll_rate_limited(w)
  \/ \E w \in Workers : poll_error(w)
  \/ \E w \in Workers : poll_error_raises(w)
  \/ idle_ticks

\* The event loop runs every task that is ready, and time passes.
SpecAgain == InitFetch /\ [][NextAgain]_vars /\ WF_vars(NextAgain)

\* ------------------------------------------------------------------
\* Properties
\* ------------------------------------------------------------------
Active(w) == workers[w].pc \notin {"idle", "done"}
InFlight(h) ==
  Cardinality({ w \in Workers :
                  workers[w].pc = "http" /\ Hostname(workers[w].url) = h })

\* C1: for every (subscription id, guid) the sink (channel.send from a poll
\* worker or from the subscribe bootstrap) is invoked at most once.
C1_AtMostOnceDelivery == \A p \in Pairs : sink[p] + bootsink[p] <= 1

\* C2: while a subscribe that created a row is running, nothing of its
\* initial parse is delivered before the journal holds it, and no poll
\* worker delivers an item of that initial parse.
C2_BootstrapNotRepublished ==
  \A g \in Range(cmd.items) :
    cmd.pc \in {"journal", "post"} =>
      /\ sink[<< cmd.feed_id, g >>] = 0
      /\ (cmd.pc = "journal" => bootsink[<< cmd.feed_id, g >>] = 0)

\* C3: when a poll worker moves on from an item, the item is in the journal,
\* whatever the send did; with no channel the sink is not invoked.
C3_JournalledRegardless ==
  [][\A w \in Workers :
       /\ (workers[w].pc = "record" /\ workers'[w].pc \in {"send", "finish"})
            => is_item_posted(posted_items', workers[w].id,
                              Head(workers[w].queue))
       /\ (workers[w].pc = "send" /\ workers'[w].pc = "record"
             /\ workers'[w].res = "no channel")
            => sink' = sink]_vars

\* C3 witness: a worker has moved past an item that found no channel; the
\* item was never sent and is in the journal.
C3_Witness ==
  \E w \in Workers : \E k \in DOMAIN workers[w].handled :
    /\ workers[w].handled[k].res = "no channel"
    /\ sink[<< workers[w].id, workers[w].handled[k].guid >>] = 0
    /\ is_item_posted(posted_items, workers[w].id, workers[w].handled[k].guid)

\* C4: the persisted poll_interval of every subscription lies within
\* [min_poll_interval, max_poll_interval].
C4_IntervalClamped ==
  \A i \in DOMAIN feeds :
    /\ feeds[i].poll_interval >= min_poll_interval
    /\ feeds[i].poll_interval <= max_poll_interval

\* C5: a 403/429 schedules next_poll_at at least 14400 s (and at least
\* retry_after s) after now and leaves consecutive_errors as it was.
C5_RateLimitBackoff ==
  [][\A w \in Workers :
       (workers[w].pc = "rate_limited" /\ workers'[w].pc = "done"
          /\ workers[w].id \in DOMAIN feeds)
       => /\ Val(feeds'[workers[w].id].next_poll_at) >= now + 14400
          /\ (~IsNone(workers[w].retry_after) =>
                Val(feeds'[workers[w].id].next_poll_at)
                  >= now + Val(workers[w].retry_after))
          /\ feeds'[workers[w].id].consecutive_errors
               = feeds[workers[w].id].consecutive_errors]_vars

\* C5 witness: a rate-limited poll of a subscription with earlier errors and
\* Retry-After: 50000 has finished.
C5_Witness ==
  \E w \in Workers :
    /\ workers[w].pc = "done" /\ workers[w].res = "rate_limited"
    /\ workers[w].retry_after = Some(50000)
    /\ workers[w].id \in DOMAIN feeds
    /\ feeds[workers[w].id].consecutive_errors > 0
    /\ Val(feeds[workers[w].id].next_poll_at) >= now + 50000

\* C6: any other failure sets consecutive_errors to its previous value + 1,
\* persists the message, and sets next_poll_at = now + b + j with
\* b = min(poll_interval * 2^consecutive_errors, 86400), 0 <= j <= b / 10.
C6_ErrorBackoff ==
  [][\A w \in Workers :
       (workers[w].pc = "error" /\ workers'[w].pc = "done"
          /\ workers[w].id \in DOMAIN feeds)
       => LET prev == feeds[workers[w].id]
              row == feeds'[workers[w].id]
              b == Min(prev.poll_interval * Pow2(prev.consecutive_errors + 1),
                       86400)
          IN  /\ row.consecutive_errors = prev.consecutive_errors + 1
              /\ row.last_error = Some(workers[w].error)
              /\ Val(row.next_poll_at) >= now + b
              /\ Val(row.next_poll_at) <= now + b + (b \div 10)]_vars

\* C7: on a 410 the notice goes to the channel when it resolves, and the
\* subscription and its journal entries are deleted whether the notice was
\* sent, failed, or had no channel.
C7_GoneRemoves ==
  [][\A w \in Workers :
       /\ (workers[w].pc = "gone" /\ workers'[w].pc = "remove")
            => IF workers'[w].res = "no channel"
               THEN notices' = notices
               ELSE notices' = [notices EXCEPT ![workers[w].id] = @ + 1]
       /\ (workers[w].pc = "remove" /\ workers'[w].pc = "done")
            => /\ workers[w].id \notin DOMAIN feeds'
               /\ \A r \in posted_items' : r.feed_id # workers[w].id]_vars

\* C7 witness: a 410 worker whose notice send failed has finished, and the
\* subscription is gone.
C7_Witness ==
  \E w \in Workers :
    /\ workers[w].pc = "done" /\ workers[w].res = "gone"
    /\ workers[w].error = "send failed"
    /\ notices[workers[w].id] = 1
    /\ workers[w].id \notin DOMAIN feeds

\* C8: no journal entry references a subscription that is not in the store,
\* in every reachable state; removing an id that is gone changes nothing.
C8_Cascade ==
  /\ [](\A r \in posted_items : r.feed_id \in DOMAIN feeds)
  /\ [][\A w \in Workers :
          (workers[w].pc = "remove" /\ workers'[w].pc = "done"
             /\ workers[w].id \notin DOMAIN feeds)
          => (feeds' = feeds /\ posted_items' = posted_items)]_vars

\* C8 witness: a worker's journal write met a subscription that an
\* unsubscribe had removed in the meantime.
C8_Witness ==
  \E w \in Workers :
    /\ workers[w].pc = "error" /\ workers[w].error = "IntegrityError"
    /\ workers[w].id \notin DOMAIN feeds
    /\ \A r \in posted_items : r.feed_id # workers[w].id

\* C9: no two unfinished poll workers belong to the same subscription.
C9_OneWorkerPerFeed ==
  \A w1 \in Workers : \A w2 \in Workers \ {w1} :
    (Active(w1) /\ Active(w2)) => workers[w1].id # workers[w2].id

\* C9 witness: a worker runs for a subscription that an earlier worker has
\* polled to the end.
C9_Witness ==
  \E w \in Workers :
    /\ Active(w)
    /\ workers[w].id \in DOMAIN feeds
    /\ ~IsNone(feeds[workers[w].id].last_poll_at)

\* C10: at most 2 requests are in flight per host, and the permits in use
\* and the free permits of a host's semaphore always add up to 2.
C10_HostLimit ==
  \A w \in Workers :
    LET h == Hostname(workers[w].url)
    IN  /\ InFlight(h) <= 2
        /\ (h \in DOMAIN host_semaphores =>
              InFlight(h) + host_semaphores[h] = 2)

\* C10 witness: a third worker for a host waits while two requests to that
\* host are in flight, after the semaphore served an earlier tick.
C10_Witness ==
  \E w \in Workers :
    /\ workers[w].pc = "start"
    /\ InFlight(Hostname(workers[w].url)) = 2
    /\ advances > 0

\* C11: no failure of a worker ends the poll loop; a worker that raises out
\* of its own error handling leaves the other workers of the tick as they
\* are, the tick then ends with the loop asleep and every worker collected.
C11_FailuresContained ==
  /\ [](loop.pc # "dead")
  /\ [][\A w \in Workers :
          (workers[w].pc = "error" /\ workers'[w].res = "raised")
          => \A v \in Workers \ {w} : workers'[v] = workers[v]]_vars
  /\ ((\E w \in Workers : workers[w].res = "raised")
        ~> (loop.pc = "sleep" /\ \A w \in Workers : workers[w].pc = "idle"))

\* C11 witness: in a later tick a worker runs for a subscription whose
\* earlier worker raised before it wrote anything, while a worker of this
\* tick has raised as well.
C11_Witness ==
  /\ advances > 0
  /\ loop.pc = "gather"
  /\ \E w1 \in Workers, w2 \in Workers :
       /\ workers[w1].pc = "done" /\ workers[w1].res = "raised"
       /\ Active(w2)
       /\ IsNone(feeds[workers[w2].id].last_poll_at)

\* C12: every item of the fetched document that is not in the journal is
\* handed to the sink at some time. Under SpecBurst the document never
\* changes and every request after a stored ETag is answered 304, so an item
\* not yet handed over when a poll ends with 304 is never handed over: the
\* claim says that at such a step every item of the document has been sent
\* (or, its channel not resolving, has been journalled without a send).
C12_EventuallyDelivered ==
  [][\A w \in Workers :
       (workers[w].pc = "not_modified" /\ workers'[w].pc = "done")
       => \A g \in Range(BurstGuids) :
            \/ sink[<< workers[w].id, g >>] > 0
            \/ is_item_posted(posted_items, workers[w].id, g)]_vars

\* C13: within one poll cycle the items a worker works through come
\* oldest-first: each later one stands earlier in the document.
C13_OldestFirst ==
  \A w \in Workers :
    \A i \in DOMAIN workers[w].handled : \A j \in DOMAIN workers[w].handled :
      i < j => DocIndex(workers[w].handled[i].guid)
                 > DocIndex(workers[w].handled[j].guid)

\* C13 witness: a worker has sent three items of one cycle, the oldest entry
\* of the document ("g1") first.
C13_Witness ==
  \E w \in Workers :
    /\ Len(workers[w].handled) >= 3
    /\ \A k \in 1..3 : workers[w].handled[k].res = "sent"
    /\ workers[w].handled[1].guid = "g1"
    /\ sink[<< workers[w].id, "g3" >>] = 1

\* C14: when more than max_items_per_poll items of the document are not in
\* the journal, the cycle's delivery queue holds exactly max_items_per_poll
\* items, and they are the ones that come first in the document.
C14_CapKeepsNewest ==
  [][\A w \in Workers :
       (workers[w].pc = "http" /\ workers'[w].pc = "send")
       => LET fresh == Unposted(posted_items, workers[w].id, BurstDoc)
          IN  Len(fresh) > max_items_per_poll
              => /\ Len(workers'[w].queue) = max_items_per_poll
                 /\ Range(workers'[w].queue)
                      = Range(Take(fresh, max_items_per_poll))]_vars

\* C15: no two subscriptions share (url, guild_id), in every reachable
\* state; add_feed on a pair that exists fails and changes nothing, for a
\* direct call and for the insert of a /feed add whose lookup came too early.
C15_UniquePair ==
  /\ [](\A i \in DOMAIN feeds : \A j \in DOMAIN feeds \ {i} :
          ~(feeds[i].url = feeds[j].url /\ feeds[i].guild_id = feeds[j].guild_id))
  /\ [][/\ (call.op = "" /\ call'.op = "add_feed")
             => IF \E i \in DOMAIN feeds : /\ feeds[i].url = call'.url
                                           /\ feeds[i].guild_id = call'.guild_id
                THEN /\ call'.res = "IntegrityError"
                     /\ feeds' = feeds /\ seq' = seq
                     /\ posted_items' = posted_items
                ELSE call'.res = "ok"
        /\ (cmd.pc = "add" /\ cmd'.pc = "idle")
             => (feeds' = feeds /\ posted_items' = posted_items)]_vars

\* C15 witness: a /feed add has looked the pair up and found nothing, another
\* caller has inserted the pair since, and a further add_feed of the pair has
\* failed.
C15_Witness ==
  /\ cmd.pc = "add"
  /\ call.op = "add_feed" /\ call.res = "IntegrityError"
  /\ call.url = cmd.url /\ call.guild_id = cmd.guild_id
  /\ \E i \in DOMAIN feeds : i > 2 /\ feeds[i].url = cmd.url
                               /\ feeds[i].guild_id = cmd.guild_id

\* C16: a successful add_feed creates a row with next_poll_at absent,
\* consecutive_errors 0 and poll_interval equal to the configured
\* default_poll_interval, and get_due_feeds returns the row.
C16_AddDefaults ==
  [][(call.op = "" /\ call'.op = "add_feed" /\ call'.res = "ok")
       => LET row == feeds'[call'.id]
          IN  /\ IsNone(row.next_poll_at)
              /\ row.consecutive_errors = 0
              /\ row.poll_interval = config.default_poll_interval
              /\ call'.id \in Range(get_due_feeds(feeds', now))]_vars

\* C17: get_due_feeds returns exactly the subscriptions whose next_poll_at
\* is absent or <= now, each once, ordered by next_poll_at with the absent
\* ones first.
C17_DueSelection ==
  [][(call.op = "" /\ call'.op = "get_due_feeds")
       => LET due == call'.rows
              at(k) == feeds[due[k]].next_poll_at
          IN  /\ Range(due) = { i \in DOMAIN feeds :
                                  \/ feeds[i].next_poll_at = None
                                  \/ feeds[i].next_poll_at[1] <= now }
              /\ Len(due) = Cardinality(Range(due))
              /\ \A a \in DOMAIN due : \A b \in DOMAIN due :
                   a < b => \/ at(a) = None
                            \/ (at(b) # None /\ at(a)[1] <= at(b)[1])]_vars

\* C17 witness: the query has returned a never-polled subscription before
\* one whose next_poll_at is this very second.
C17_Witness ==
  /\ call.op = "get_due_feeds"
  /\ call.rows = << 2, 1 >>
  /\ now > 0
  /\ DOMAIN feeds = {1, 2}
  /\ feeds[1].next_poll_at = Some(now)
  /\ feeds[2].next_poll_at = None

\* C18: update_feed_state with a name outside the seven state columns is
\* rejected and changes nothing, also when it names valid columns as well;
\* an accepted call changes exactly the named columns of that one row.
C18_StateFields ==
  [][(call.op = "" /\ call'.op = "update_feed_state")
       => LET kw == call'.kw
              id == call'.id
          IN  IF \E c \in DOMAIN kw :
                   c \notin {"etag", "last_modified", "last_poll_at",
                             "next_poll_at", "poll_interval",
                             "consecutive_errors", "last_error"}
              THEN call'.res = "ValueError" /\ feeds' = feeds
              ELSE /\ call'.res = "ok"
                   /\ DOMAIN feeds' = DOMAIN feeds
                   /\ \A i \in DOMAIN feeds \ {id} : feeds'[i] = feeds[i]
                   /\ id \in DOMAIN feeds =>
                        \A c \in DOMAIN feeds[id] :
                          feeds'[id][c] = IF c \in DOMAIN kw THEN kw[c]
                                          ELSE feeds[id][c]]_vars

\* C18 witness: a call naming consecutive_errors and an unknown column was
\* rejected, and the row's consecutive_errors is not the value it named.
C18_Witness ==
  /\ call.op = "update_feed_state" /\ call.res = "ValueError"
  /\ "consecutive_errors" \in DOMAIN call.kw
  /\ call.id \in DOMAIN feeds
  /\ feeds[call.id].consecutive_errors # call.kw.consecutive_errors

\* C19: the journal holds at most one entry per (feed_id, item_guid); a
\* record_posted_item for a key that is there succeeds and leaves the journal
\* as it is (first posted_at and message_id kept), is_item_posted still true.
C19_RecordIdempotent ==
  /\ [](\A r1 \in posted_items : \A r2 \in posted_items :
          (r1.feed_id = r2.feed_id /\ r1.item_guid = r2.item_guid) => r1 = r2)
  /\ [][(/\ call.op = "" /\ call'.op = "record_posted_item"
         /\ \E r \in posted_items : /\ r.feed_id = call'.id
                                    /\ r.item_guid = call'.guid)
          => /\ call'.res = "ok"
             /\ posted_items' = posted_items]_vars

\* C19 witness: a second record_posted_item, later and with another
\* message_id, has returned; the entry is the first one.
C19_Witness ==
  /\ call.op = "record_posted_item" /\ call.res = "ok"
  /\ \E r \in posted_items :
       /\ r.feed_id = call.id /\ r.item_guid = call.guid
       /\ r.message_id # call.message_id
       /\ r.posted_at < now

\* C20: /feed add <id>, /feed remove and /feed preview <id> answer not-found
\* for an id that is not a subscription of the caller's guild and then change
\* nothing; whatever they answer, they leave the subscriptions and journal
\* entries of every other guild as they are; /feed list gives exactly the
\* subscriptions of the caller's guild.
C20_GuildScoped ==
  [][call' # call =>
       LET id == call'.id
           guild == call'.guild_id
           foreign == { i \in DOMAIN feeds : feeds[i].guild_id # guild }
       IN  /\ \A i \in foreign : i \in DOMAIN feeds' /\ feeds'[i] = feeds[i]
           /\ \A r \in posted_items :
                r.feed_id \in foreign => r \in posted_items'
           /\ call'.op \in {"feed_add", "feed_remove", "feed_preview"}
                => /\ id \in foreign => call'.res = "not found"
                   /\ call'.res = "not found"
                        => (feeds' = feeds /\ posted_items' = posted_items)
           /\ call'.op = "feed_list"
                => call'.listed = { i \in DOMAIN feeds :
                                      feeds[i].guild_id = guild }]_vars

\* C20 witness: a member of a guild that has moved its own subscription was
\* answered not-found for the id of another guild's subscription, which is
\* still there with its journal entry.
C20_Witness ==
  /\ call.op = "feed_remove" /\ call.res = "not found"
  /\ call.id \in DOMAIN feeds
  /\ feeds[call.id].guild_id # call.guild_id
  /\ \E r \in posted_items : r.feed_id = call.id
  /\ \E i \in DOMAIN feeds : /\ feeds[i].guild_id = call.guild_id
                             /\ feeds[i].channel_id = 20

\* C21: when a /feed add that created a subscription replies, the items it
\* has handed to the channel are the initial_items_count first entries of the
\* parsed document (all of them when there are fewer), oldest first, when no
\* send raised; when a send raised, they are those up to and including the
\* one whose send raised, and the rest was not tried. Nothing else was sent.
C21_InitialItems ==
  cmd.pc = "reply" =>
    LET n == Min(initial_items_count, Len(cmd.items))
        want == [ i \in 1..n |-> cmd.items[n + 1 - i] ]
    IN  /\ IF cmd.failed
           THEN /\ cmd.sent # <<>>
                /\ Len(cmd.sent) <= n
                /\ cmd.sent = SubSeq(want, 1, Len(cmd.sent))
           ELSE cmd.sent = want
        /\ \A g \in Range(BurstGuids) :
             bootsink[<< cmd.feed_id, g >>] =
               IF g \in Range(cmd.sent) THEN 1 ELSE 0

\* C21 witness: a subscribe to the six-entry document has replied after
\* sending g4, g5, g6, the three newest, in that order.
C21_Witness ==
  /\ cmd.pc = "reply"
  /\ Len(cmd.items) = 6
  /\ ~cmd.failed
  /\ cmd.sent = << "g4", "g5", "g6" >>
  /\ bootsink[<< cmd.feed_id, "g3" >>] = 0

\* C21 as stated: on every subscribe that created a subscription the channel
\* is handed all of the initial_items_count most recent items, oldest first.
C21_AllInitialDelivered ==
  cmd.pc = "reply" =>
    LET n == Min(initial_items_count, Len(cmd.items))
    IN  cmd.sent = [ i \in 1..n |-> cmd.items[n + 1 - i] ]

C23_BodyCapped ==
  [][\A w \in Workers :
       (/\ workers[w].pc = "http" /\ workers'[w].pc # "http"
        /\ workers'[w].error # "network" /\ call'.status = 200)
       => IF call'.size > MAX_FEED_BYTES
          THEN /\ workers'[w].pc = "error"
               /\ workers'[w].error = "PayloadTooLarge"
          ELSE workers'[w].error # "PayloadTooLarge"]_vars

\* C24: discover_feed_url returns the first valid feed in the order: the
\* URL itself, the page's feed links in document order (when the page is
\* HTML), the well-known paths in their listed order; it raises
\* FeedNotFoundError only when none of them is a valid feed, also when the
\* GET of the URL itself has failed.
C24_FirstValidFeed ==
  [][call'.op = "discover_feed_url" =>
       LET web == call'.kw
           links == IF web.direct = "html" THEN web.links ELSE << >>
           linkFeeds == { i \in DOMAIN links : links[i] = "feed" }
           pathFeeds == { j \in DOMAIN web.well_known :
                            web.well_known[j] = "feed" }
           first(S) == CHOOSE m \in S : \A k \in S : m <= k
       IN  IF web.direct = "feed"
           THEN call'.res = "ok" /\ call'.rows = << "url", 0 >>
           ELSE IF linkFeeds # {}
           THEN call'.res = "ok" /\ call'.rows = << "link", first(linkFeeds) >>
           ELSE IF pathFeeds # {}
           THEN /\ call'.res = "ok"
                /\ call'.rows = << "well-known", first(pathFeeds) >>
           ELSE call'.res = "FeedNotFoundError"]_vars

\* C25: the trim pass run on the output of the trim pass gives that output
\* again, for every list of summaries.
C25_TrimIdempotent ==
  [][(call.op = "_strip_boilerplate"
        /\ call'.op = "_strip_boilerplate again")
       => call'.rows = call.rows]_vars

\* C26: initialise() on a file of the earlier layout leaves no feed_state
\* table and a feeds table with the state columns, in which every row that
\* had a feed_state row holds that row's values and its own columns as
\* before; initialise() on a file it has already been through changes
\* nothing.
C26_Migration ==
  [][/\ (call.op = "" /\ call'.op = "initialise"
           /\ "feed_state" \in DOMAIN call'.kw)
          => LET old == call'.kw
                 new == call'.rows
             IN  /\ "feed_state" \notin DOMAIN new
                 /\ new["feeds"].columns = FeedColumns
                 /\ DOMAIN new["feeds"].rows = DOMAIN old["feeds"].rows
                 /\ \A i \in DOMAIN old["feeds"].rows :
                      /\ \A c \in LegacyFeedColumns :
                           new["feeds"].rows[i][c] = old["feeds"].rows[i][c]
                      /\ i \in DOMAIN old["feed_state"].rows =>
                           \A c \in _UPDATABLE_STATE_COLUMNS :
                             new["feeds"].rows[i][c]
                               = old["feed_state"].rows[i][c]
     /\ (call.op = "initialise" /\ call'.op = "initialise again")
          => call'.rows = call.rows]_vars

\* C27: once stop() has been called no worker is started, and the call
\* leads to the poll loop having ended, no worker in flight and stop()
\* having returned, wherever the loop was when it was called.
C27_StopTerminates ==
  /\ [][call.op = "stop" =>
          \A w \in Workers :
            ~(workers[w].pc = "idle" /\ workers'[w].pc = "start")]_vars
  /\ (call.op = "stop") ~> (/\ call.res = "returned"
                            /\ loop.pc = "cancelled"
                            /\ \A w \in Workers :
                                 workers[w].pc \in {"idle", "done"})

\* C27 witness: a stop() called while the loop awaited two workers, one of
\* them with its request under way, has returned.
C27_Witness ==
  /\ call.op = "stop" /\ call.res = "returned"
  /\ loop.pc = "cancelled"
  /\ Cardinality({ w \in Workers : workers[w].res = "cancelled" }) = 2
  /\ \E h \in DOMAIN host_semaphores : host_semaphores[h] = HostPermits

\* C30: when stop() has returned, every item a poll worker handed to the
\* channel is in the journal.
C30_DeliveredIsJournalled ==
  (call.op = "stop" /\ call.res = "returned") =>
    \A p \in Pairs :
      sink[p] > 0 => is_item_posted(posted_items, p[1], p[2])

\* C28: the step that ends a poll cycle in NotModified or after a parsed
\* Fresh document leaves the row with consecutive_errors = 0, whatever the
\* counter was, and with next_poll_at = now + the interval it persists as
\* poll_interval + 0..25% of it; for NotModified that interval is the one
\* the row had.
C28_ErrorsReset ==
  [][\A w \in Workers :
       ( /\ workers[w].pc \in {"not_modified", "finish"}
         /\ workers'[w].pc = "done"
         /\ workers[w].id \in DOMAIN feeds )
       => LET id == workers[w].id
              interval == feeds'[id].poll_interval
          IN  /\ feeds'[id].consecutive_errors = 0
              /\ ~IsNone(feeds'[id].next_poll_at)
              /\ Val(feeds'[id].next_poll_at) - now
                   \in interval .. (interval + (interval * 25) \div 100)
              /\ feeds'[id].last_poll_at = Some(now)
              /\ workers[w].pc = "not_modified"
                   => interval = feeds[id].poll_interval]_vars

\* C28 witness: of two subscriptions that had failed before, one has ended a
\* cycle in NotModified and the other after a Fresh document, and both
\* counters are 0.
C28_Witness ==
  /\ \A i \in {1, 2} :
       /\ i \in DOMAIN feeds
       /\ feeds[i].consecutive_errors = 0
       /\ ~IsNone(feeds[i].last_error)
       /\ ~IsNone(feeds[i].next_poll_at)
  /\ \E w \in Workers :
       workers[w].pc = "done" /\ workers[w].res = "not_modified"
  /\ \E w \in Workers :
       workers[w].pc = "done" /\ workers[w].res = "fresh"

\* C29: while the loop awaits a worker that is still in flight, no other
\* subscription has been due for a whole tick (30 seconds) without a
\* worker of its own.
C29_DueIsDispatchedAtTick ==
  ( /\ loop.pc = "gather"
    /\ \E w \in Workers : workers[w].pc \notin {"idle", "done"} )
  => \A i \in DOMAIN feeds :
       ( /\ \A w \in Workers : workers[w].id # i
         /\ ~IsNone(feeds[i].next_poll_at) )
       => now - Val(feeds[i].next_poll_at) < LoopSleep

C38_ValidatorsFrame ==
  [][\A i \in DOMAIN feeds \cap DOMAIN feeds' :
       ( \/ feeds'[i].etag # feeds[i].etag
         \/ feeds'[i].last_modified # feeds[i].last_modified )
       => /\ call'.op = "response" /\ call'.status = 200
          /\ call'.res = "parsed" /\ call'.id = i
          /\ \E w \in Workers :
               /\ workers[w].id = i /\ workers[w].pc = "http"
               /\ workers'[w].pc \in {"send", "finish"}]_vars

\* C38 witness: after a 200 whose body did not parse, the next request
\* carries the validators the row held before.
C38_Witness ==
  /\ call.op = "request"
  /\ advances > 0
  /\ 1 \in DOMAIN feeds
  /\ feeds[1].last_error = Some("Unparseable feed")
  /\ feeds[1].etag = Some("e0") /\ feeds[1].last_modified = Some("m0")
  /\ call.kw.if_none_match = Some("e0")
  /\ call.kw.if_modified_since = Some("m0")

\* C32: a subscription whose poll ended Fresh less than one default interval
\* after it was created (inside any warmup window) has
\* poll_interval = the configured default_poll_interval.
C32_WarmupDefault ==
  \A w \in Workers :
    ( /\ workers[w].pc = "done" /\ workers[w].res = "fresh"
      /\ workers[w].id \in DOMAIN feeds
      /\ ~IsNone(feeds[workers[w].id].last_poll_at)
      /\ Val(feeds[workers[w].id].last_poll_at)
           - feeds[workers[w].id].created_at < config.default_poll_interval )
    => feeds[workers[w].id].poll_interval = config.default_poll_interval

\* C33: calculate_adaptive_interval gives no value for fewer than two
\* timestamps, and otherwise floor(mean gap / 2) clamped to
\* [min_interval, max_interval], the mean gap being (newest - oldest) /
\* (n - 1) whatever the order of the list; four items two hours apart give
\* a value in [3000, 4200], three a day apart give max_interval, three two
\* minutes apart give min_interval.
C33_AdaptiveInterval ==
  call.op = "calculate_adaptive_interval" =>
    LET ts == call.kw
        n == Len(ts)
        newest == CHOOSE x \in Range(ts) : \A y \in Range(ts) : y <= x
        oldest == CHOOSE x \in Range(ts) : \A y \in Range(ts) : x <= y
        half == (newest - oldest) \div (2 * (n - 1))
    IN  /\ n < 2 => call.rows = None
        /\ n >= 2 =>
             /\ ~IsNone(call.rows)
             /\ Val(call.rows) =
                  IF half < min_poll_interval THEN min_poll_interval
                  ELSE IF half > max_poll_interval THEN max_poll_interval
                  ELSE half
        /\ Range(ts) = {0, 7200, 14400, 21600} /\ n = 4
             => Val(call.rows) \in 3000..4200
        /\ Range(ts) = {0, 86400, 172800} /\ n = 3
             => Val(call.rows) = max_poll_interval
        /\ Range(ts) = {0, 120, 240} /\ n = 3
             => Val(call.rows) = min_poll_interval

\* C33 witness: four timestamps two hours apart, given out of order, have
\* yielded one hour.
C33_Witness ==
  /\ call.op = "calculate_adaptive_interval"
  /\ call.kw = << 7200, 21600, 0, 14400 >>
  /\ call.rows = Some(3600)

\* C34: when a prune has just completed, no journal entry older than 90
\* days is left.
C34_PruneExact ==
  ( loop.pc = "sleep" /\ loop.last_prune = Some(now) )
  => \A r \in posted_items : now - r.posted_at <= PruneDays * DaySeconds

\* C35: every row has next_poll_at absent or later than its last_poll_at,
\* and consecutive_errors >= 0; the step that ends a poll in NotModified or
\* Fresh leaves last_poll_at = now and next_poll_at between now + interval
\* and now + 1.25 * interval, for the interval it persists as poll_interval.
C35_ScheduleOrder ==
  /\ [](\A i \in DOMAIN feeds :
          /\ feeds[i].consecutive_errors >= 0
          /\ \/ IsNone(feeds[i].next_poll_at)
             \/ /\ ~IsNone(feeds[i].last_poll_at)
                /\ Val(feeds[i].next_poll_at) > Val(feeds[i].last_poll_at))
  /\ [][\A w \in Workers :
          ( /\ workers[w].pc \in {"not_modified", "finish"}
            /\ workers'[w].pc = "done"
            /\ workers[w].id \in DOMAIN feeds )
          => LET row == feeds'[workers[w].id]
             IN  /\ row.last_poll_at = Some(now)
                 /\ ~IsNone(row.next_poll_at)
                 /\ 4 * (Val(row.next_poll_at) - now) >= 4 * row.poll_interval
                 /\ 4 * (Val(row.next_poll_at) - now) <= 5 * row.poll_interval]_vars

\* C35 witness: a row polled with success after time has passed, scheduled
\* with the full jitter of a quarter of its interval.
C35_Witness ==
  \E w \in Workers :
    /\ workers[w].pc = "done" /\ workers[w].res \in {"fresh", "not_modified"}
    /\ workers[w].id \in DOMAIN feeds
    /\ now > 0
    /\ feeds[workers[w].id].last_poll_at = Some(now)
    /\ 4 * (Val(feeds[workers[w].id].next_poll_at) - now)
         = 5 * feeds[workers[w].id].poll_interval

\* C36: the id given to a new subscription is greater than every id given
\* before, whether or not those rows still exist; an id that was given and
\* whose row is gone never names a row again, and no journal entry carries
\* the id of a row that does not exist.
C36_IdsNeverReused ==
  /\ [][/\ seq' >= seq
        /\ \A i \in DOMAIN feeds' \ DOMAIN feeds : i > seq /\ seq' = i
        /\ \A i \in 1..seq : i \notin DOMAIN feeds => i \notin DOMAIN feeds']_vars
  /\ [](\A i \in DOMAIN feeds : i <= seq)
  /\ [](\A r \in posted_items : r.feed_id \in DOMAIN feeds)

\* C36 witness: add_feed has returned 3 after the row of id 2 was removed,
\* the row of id 1 still being there.
C36_Witness ==
  /\ call.op = "add_feed" /\ call.res = "ok" /\ call.id = 3
  /\ DOMAIN feeds = {1, 3}

\* C37: the step that ends a poll cycle in RateLimited or in a failure
\* leaves poll_interval, etag and last_modified of the row as they were.
C37_FailureFrame ==
  [][\A w \in Workers :
       ( /\ workers[w].pc \in {"rate_limited", "error"}
         /\ workers'[w].pc = "done"
         /\ workers[w].id \in DOMAIN feeds )
       => /\ feeds'[workers[w].id].poll_interval
               = feeds[workers[w].id].poll_interval
          /\ feeds'[workers[w].id].etag = feeds[workers[w].id].etag
          /\ feeds'[workers[w].id].last_modified
               = feeds[workers[w].id].last_modified]_vars

\* C39: a subscription whose poll has ended, in NotModified, Fresh,
\* RateLimited, a failure, or with a state write that raised, is dispatched
\* again (as long as the run has three passages of time left, which is what
\* the longest backoff with two prunes in between takes).
C39_PolledAgain ==
  (\E w \in Workers :
      /\ workers[w].pc = "done" /\ workers[w].id = 1
      /\ advances <= MaxJumps - 3)
    ~> (\E w \in Workers : workers[w].pc = "start" /\ workers[w].id = 1)

\* C39 witness: the subscription is dispatched after a cycle in which the
\* error count was written and the write of the schedule raised.
C39_Witness ==
  /\ \E w \in Workers : workers[w].pc = "start" /\ workers[w].id = 1
  /\ advances > 0
  /\ feeds[1].consecutive_errors = 1
  /\ IsNone(feeds[1].last_poll_at)

====
